---- MODULE Spec2Model ----
(***************************************************************************)
(* Model of alist_cli: the breadth-first crawler of api/client.rs and the  *)
(* download pipelines of download.rs, api/operations.rs and                *)
(* utils/file_ops.rs.  Strings are sequences of one-character strings, so  *)
(* that path construction (format!) and prefix trimming are computed.      *)
(***************************************************************************)
EXTENDS Integers, Sequences, FiniteSets, TLC

\* ---------------------------------------------------------------- bounds
\* The remote namespace holds at most MaxItems listing rows in total.
MaxItems == 2

\* The configured concurrency limit is at most MaxThreads.
MaxThreads == 2

\* ------------------------------------------------------ program constants
\* api/client.rs: const MAX_RETRIES: u32 = 3
MAX_RETRIES == 3
\* utils/file_ops.rs: const MAX_RETRIES: u32 = 3
DL_MAX_RETRIES == 3
\* utils/file_ops.rs: const INITIAL_BACKOFF_MS: u64 = 500
INITIAL_BACKOFF_MS == 500
\* utils/file_ops.rs: const MAX_BACKOFF_MS: u64 = 10000
MAX_BACKOFF_MS == 10000

\* ------------------------------------------------------------ option type
None == <<>>
Some(x) == <<x>>
IsSome(o) == Len(o) = 1
Unwrap(o) == o[1]

\* --------------------------------------------------------------- universe
\* Entry names a listing row may carry.
Names == { <<"a">>, <<"p", ".", "j", "p", "g">> }
\* Root paths given on the command line ("/" is the CLI default).
Roots == { <<"/">>, <<"/", "A">> }
\* Provider strings a folder listing may report.
Providers == { <<"BaiduNetdisk">>, <<"Other">> }
\* Remote hash values: the hexadecimal text is upper case as served.
HashObjects == { [tag |-> "sha1", hex |-> <<"A", "1">>] }
HashOpts == { None } \cup { Some(h) : h \in HashObjects }

\* types.rs EntryInfo (the fields the engine reads)
EntryInfos == [name : Names, is_dir : BOOLEAN, hash_info : HashOpts]

RECURSIVE SeqsUpTo(_, _)
SeqsUpTo(S, n) ==
    IF n = 0 THEN { <<>> }
    ELSE LET shorter == SeqsUpTo(S, n - 1)
         IN  shorter \cup { Append(s, x) : s \in { t \in shorter : Len(t) = n - 1 }, x \in S }

\* ------------------------------------------------------------- responses
\* What one call of get_api_response can give back.
\*   kind "http"   : transport failure or non-2xx status  (Err)
\*   kind "decode" : the body is not an ApiResponse        (Err)
\*   kind "resp"   : a decoded ApiResponse [code, data]
\* data is None, Some FileInfo or Some FoldersInfo [content, provider].
FoldersInfo(content, provider) ==
    [shape |-> "folders", content |-> content, provider |-> provider]
FileInfoData == [shape |-> "file", raw_url |-> <<"u">>]

ErrResponses == { [kind |-> "http"], [kind |-> "decode"] }
ApiResponse(code, data) == [kind |-> "resp", code |-> code, data |-> data]

\* api/client.rs format!("{}/{}", current_path, file.name)
FullPath(current_path, name) == current_path \o <<"/">> \o name

\* ------------------------------------------------------------------ state
VARIABLES
    \* --- crawl (api/client.rs)
    url_path,                \* the root path the crawl was started with
    visited_paths,           \* HashSet<String> shared by the crawl
    directories_to_process,  \* VecDeque<String>, the work queue
    entries_with_paths,      \* Vec<EntryWithPath>, the result list
    current_path,            \* Option: the directory being processed
    retry_count,             \* process_folder_contents' retry counter
    cpc,                     \* position: "fetch", "list", "returned"
    crawl_ret,               \* Option: what get_path_structure returned
    \* --- crawl history (observation only, never read by the actions' guards)
    enq_log,                 \* every path pushed on the queue, in order
    deq_log,                 \* every path popped from the queue, in order
    list_calls,              \* list calls issued for current_path since it was popped
    last_event,              \* how the last crawl step ended: "pop", "retry", "failed", "null", "listed", "return"
    last_served,             \* what the server sent in the last list call: "null" (code 200, folder payload, content null), "other"; "none" after a pop
    outcome                  \* path -> "null" | "listed" | "failed", how its processing ended

VARIABLES
    \* --- download pipelines (download.rs, api/operations.rs, utils/file_ops.rs)
    pipeline,                \* "folders" (download_folders) or "metadata" (copy_metadata)
    limit,                   \* get_config().threads, resp. CONFIG.concurrent_limit
    dpc,                     \* position of the pipeline: "idle", "init", "running", "finished"
    tasks,                   \* the spawned tasks / buffered futures, in spawn order
    slots_free,              \* permits left in the semaphore / room left in the buffer
    fs,                      \* local file system: destination path -> content
    succeeded,               \* download_folders' counters
    failed,
    failed_files,            \* download_folders' Vec of failure messages
    dl_ret                   \* Option: "ok" or "err", what the pipeline returned

dl_vars == << pipeline, limit, dpc, tasks, slots_free, fs, succeeded, failed,
             failed_files, dl_ret >>

VARIABLES
    \* --- repeated runs (observation only)
    run,                     \* 1 in the first run of a pipeline, 2 in the second
    verified                 \* task index -> Option: the content of its destination when its
                             \* download last succeeded against a present hash in run 1

rerun_hist == << run, verified >>

VARIABLES
    \* --- AutoSym: placeholders, expected set and reconciliation (main.rs 170-204)
    sym_pc,                  \* "idle", "start", "written", "files", "dirs", "done"
    delete,                  \* the --delete flag
    files_set,               \* HashSet<String>: the expected remote paths
    lfiles,                  \* regular files of the local tree (normalised paths)
    ldirs,                   \* directories of the local tree (normalised paths)
    locked,                  \* files whose removal the file system refuses
    seen,                    \* entries the current walk has yielded so far
    reported,                \* files logged as "Found non-existent Entry"
    sym_ret,                 \* Option: "ok" or "err", what the AutoSym command returned
    \* --- AutoSym history (observation only)
    wrote,                   \* local files written by copy_metadata and create_strm_file
    steps_ok,                \* every download and placeholder step of the run succeeded
    lfiles0,                 \* the regular files present before the run
    lfiles1,                 \* the regular files present when the file pass began
    ldirs1,                  \* the directories present when the directory pass began
    rm_log,                  \* the directories removed, in order
    remote_lost              \* server files below a directory whose listing failed on
                             \* every attempt, so that the crawl result lacks them

sym_vars == << sym_pc, delete, files_set, lfiles, ldirs, locked, seen, reported, sym_ret,
              wrote, steps_ok, lfiles0, lfiles1, ldirs1, rm_log, remote_lost >>

VARIABLES
    \* --- one call of a pure function (types.rs, crypto.rs, operations.rs)
    fn_call,                 \* [fn, ...]: the function and its arguments
    fn_result                \* Option: the value it returned

fn_vars == << fn_call, fn_result >>

VARIABLES
    \* --- the shared rate limiter and its callers (api/rate_limiter.rs)
    rl_tokens,               \* cells the limiter can hand out now
    rl_calls,                \* caller -> the state of its outbound call
    rl_sent,                 \* the requests put on the wire, in order
    rl_timeout               \* get_config().timeout, in seconds

rl_vars == << rl_tokens, rl_calls, rl_sent, rl_timeout >>

aux_vars == << sym_vars, fn_vars, rl_vars >>

crawl_vars == << url_path, visited_paths, directories_to_process, entries_with_paths,
                 current_path, retry_count, cpc, crawl_ret >>
crawl_hist == << enq_log, deq_log, list_calls, last_event, last_served, outcome >>

\* ------------------------------------------------------------ crawl: data
\* types.rs EntryWithPath, as built in process_folder_contents
EntryWithPath(file, full_path, provider) ==
    [entry |-> file, path_str |-> full_path, provider |-> provider]

\* HashSet::insert returns true iff the value was not present.
VisitedInsertMutAlways(visited, p) == TRUE
VisitedInsert(visited, p) == p \notin visited

\* The for loop over folders_info.content (client.rs 179-199), folded over the
\* rows in order.  st = [entries, queue, visited].
RECURSIVE ProcessContent(_, _, _, _)
ProcessContent(content, cur, provider, st) ==
    IF content = <<>> THEN st
    ELSE LET file      == Head(content)
             full_path == FullPath(cur, file.name)
             pushed    == file.is_dir /\ VisitedInsert(st.visited, full_path)
         IN  ProcessContent(Tail(content), cur, provider,
               [ entries |-> Append(st.entries, EntryWithPath(file, full_path, provider)),
                 queue   |-> IF pushed THEN Append(st.queue, full_path) ELSE st.queue,
                 visited |-> IF file.is_dir THEN st.visited \cup {full_path}
                                            ELSE st.visited ])

\* retry_count += 1
NextRetryCountMutStuck(rc) == rc
NextRetryCount(rc) == rc + 1

\* if retry_count > MAX_RETRIES { return Err(..) }
RetryExhausted(rc) == rc > MAX_RETRIES

\* How one iteration of the retry loop classifies the response
\* (client.rs 140-211): "fail" for the three retry arms, "null" for a folder
\* payload without content, "content" for a folder payload with rows.
ClassifyMutNullRetries(resp) ==
    IF resp.kind # "resp" THEN "fail"
    ELSE IF resp.code # 200 THEN "fail"
    ELSE IF IsSome(resp.data) /\ Unwrap(resp.data).shape = "folders"
              /\ IsSome(Unwrap(resp.data).content)
         THEN "content"
         ELSE "fail"
Classify(resp) ==
    IF resp.kind # "resp" THEN "fail"
    ELSE IF resp.code # 200 THEN "fail"
    ELSE IF IsSome(resp.data) /\ Unwrap(resp.data).shape = "folders"
         THEN IF IsSome(Unwrap(resp.data).content) THEN "content" ELSE "null"
         ELSE "fail"

\* The responses the server may give when at most `room` more rows exist.
Responses(room) ==
    ErrResponses
    \cup { ApiResponse(500, None), ApiResponse(200, None),
           ApiResponse(200, Some(FileInfoData)) }
    \cup { ApiResponse(403, Some(FoldersInfo(Some(<<>>), p))) : p \in Providers }
    \cup { ApiResponse(200, Some(FoldersInfo(c, p))) :
             c \in { None } \cup { Some(s) : s \in SeqsUpTo(EntryInfos, room) },
             p \in Providers }

\* Observation of the wire: code 200 and a folder payload whose content is null.
IsNullListing(resp) ==
    /\ resp.kind = "resp"
    /\ resp.code = 200
    /\ resp.data # None
    /\ resp.data[1].shape = "folders"
    /\ resp.data[1].content = None

\* Counter for the history of list calls.  It counts exactly up to CallCap;
\* past it the value alternates between CallCap and CallCap + 1, so that the
\* history stays finite and every list call remains a visible step.
CallCap == MAX_RETRIES + 2
Bump(n) == IF n < CallCap THEN n + 1 ELSE IF n = CallCap THEN CallCap + 1 ELSE CallCap

\* What fetch_folder_contents does with the result of
\* process_folder_contents (client.rs 261-278): it logs an Err and loops.
\* Gives the next position and the value returned, if any.
AfterFolderMutAbort(ok) ==
    IF ok THEN [cpc |-> "fetch", ret |-> None]
          ELSE [cpc |-> "returned", ret |-> Some([ok |-> FALSE, val |-> <<>>])]
AfterFolder(ok) == [cpc |-> "fetch", ret |-> None]

\* The AutoSym command has not been entered.
SymIdle ==
    /\ sym_pc = "idle"
    /\ delete = FALSE
    /\ files_set = {}
    /\ lfiles = {}
    /\ ldirs = {}
    /\ locked = {}
    /\ seen = {}
    /\ reported = {}
    /\ sym_ret = None
    /\ wrote = {}
    /\ steps_ok = TRUE
    /\ lfiles0 = {}
    /\ lfiles1 = {}
    /\ ldirs1 = {}
    /\ rm_log = <<>>
    /\ remote_lost = {}

\* No pure function is being called.
FnIdle ==
    /\ fn_call = [fn |-> "none"]
    /\ fn_result = None

\* No outbound call has been issued.
RlIdle ==
    /\ rl_tokens = 0
    /\ rl_calls = <<>>
    /\ rl_sent = <<>>
    /\ rl_timeout = 0

AuxIdle == SymIdle /\ FnIdle /\ RlIdle

\* No pipeline run has been observed yet.
RerunIdle ==
    /\ run = 1
    /\ verified = <<>>

\* The download pipelines have not been entered.
DlOff ==
    /\ RerunIdle
    /\ pipeline = "folders"
    /\ limit = 1
    /\ dpc = "idle"
    /\ tasks = <<>>
    /\ slots_free = 0
    /\ fs = <<>>
    /\ succeeded = 0
    /\ failed = 0
    /\ failed_files = <<>>
    /\ dl_ret = None

DlIdle == DlOff /\ AuxIdle

\* ---------------------------------------------------------- crawl: actions
\* get_path_structure up to the first loop test of fetch_folder_contents:
\* the root is inserted in the visited set and pushed on the queue.
CrawlInit ==
    /\ url_path \in Roots
    /\ visited_paths = { url_path }
    /\ directories_to_process = << url_path >>
    /\ entries_with_paths = <<>>
    /\ current_path = None
    /\ retry_count = 0
    /\ cpc = "fetch"
    /\ crawl_ret = None
    /\ enq_log = << url_path >>
    /\ deq_log = <<>>
    /\ list_calls = 0
    /\ last_event = "pop"
    /\ last_served = "none"
    /\ outcome = << >>
    /\ DlIdle

\* VecDeque::pop_front on a non-empty queue
PopFrontMutBack(queue) ==
    [item |-> queue[Len(queue)], rest |-> SubSeq(queue, 1, Len(queue) - 1)]
PopFront(queue) == [item |-> Head(queue), rest |-> Tail(queue)]

\* The loop test of fetch_folder_contents is reached only after the awaited
\* process_folder_contents of the previous iteration has returned.
AtLoopTestMutWhileListing(pc) == pc \in { "fetch", "list" }
AtLoopTest(pc) == pc = "fetch"

\* while let Some(current_path) = directories_to_process.pop_front()
PopDir ==
    /\ AtLoopTest(cpc)
    /\ directories_to_process # <<>>
    /\ current_path' = Some(PopFront(directories_to_process).item)
    /\ directories_to_process' = PopFront(directories_to_process).rest
    /\ retry_count' = 0
    /\ cpc' = "list"
    /\ deq_log' = Append(deq_log, PopFront(directories_to_process).item)
    /\ list_calls' = 0
    /\ last_event' = "pop"
    /\ last_served' = "none"
    /\ UNCHANGED << url_path, visited_paths, entries_with_paths, crawl_ret,
                    enq_log, outcome >>

\* The queue is empty: Ok(entries_with_paths) goes back through
\* get_path_structure.
CrawlReturn ==
    /\ cpc = "fetch"
    /\ directories_to_process = <<>>
    /\ cpc' = "returned"
    /\ crawl_ret' = Some([ok |-> TRUE, val |-> entries_with_paths])
    /\ last_event' = "return"
    /\ UNCHANGED << url_path, visited_paths, directories_to_process, entries_with_paths,
                    current_path, retry_count, enq_log, deq_log, list_calls, last_served,
                    outcome >>

\* process_folder_contents returns to fetch_folder_contents.
FolderDone(ok, how) ==
    /\ cpc' = AfterFolder(ok).cpc
    /\ crawl_ret' = AfterFolder(ok).ret
    /\ current_path' = None
    /\ last_event' = how
    /\ outcome' = (Unwrap(current_path) :> how) @@ outcome

\* After the rows of a listing were processed: `return Ok(())` (client.rs
\* 199) leaves the retry loop, so the rows of one directory are taken once.
AfterRowsMutRetry(rc) == [done |-> FALSE, rc |-> NextRetryCount(rc)]
AfterRows(rc) == [done |-> TRUE, rc |-> rc]

\* One iteration of the retry loop of process_folder_contents: one list call
\* and the handling of its response.
ListAttempt(resp) ==
    /\ list_calls' = Bump(list_calls)
    /\ last_served' = IF IsNullListing(resp) THEN "null" ELSE "other"
    /\ UNCHANGED << url_path, deq_log >>
    /\ LET cur == Unwrap(current_path)
           how == Classify(resp)
       IN  CASE how = "fail" ->
                  /\ retry_count' = NextRetryCount(retry_count)
                  /\ IF RetryExhausted(retry_count')
                     THEN FolderDone(FALSE, "failed")
                     ELSE /\ last_event' = "retry"
                          /\ UNCHANGED << cpc, crawl_ret, current_path, outcome >>
                  /\ UNCHANGED << visited_paths, directories_to_process,
                                  entries_with_paths, enq_log >>
             [] how = "null" ->
                  /\ FolderDone(TRUE, "null")
                  /\ UNCHANGED << retry_count, visited_paths, directories_to_process,
                                  entries_with_paths, enq_log >>
             [] how = "content" ->
                  LET info == Unwrap(resp.data)
                      st   == ProcessContent(Unwrap(info.content), cur, info.provider,
                                [ entries |-> entries_with_paths,
                                  queue   |-> directories_to_process,
                                  visited |-> visited_paths ])
                  IN  /\ entries_with_paths' = st.entries
                      /\ directories_to_process' = st.queue
                      /\ visited_paths' = st.visited
                      /\ enq_log' = enq_log \o SubSeq(st.queue,
                                        Len(directories_to_process) + 1, Len(st.queue))
                      /\ retry_count' = AfterRows(retry_count).rc
                      /\ IF AfterRows(retry_count).done
                         THEN FolderDone(TRUE, "listed")
                         ELSE IF RetryExhausted(retry_count')
                              THEN FolderDone(FALSE, "failed")
                              ELSE /\ last_event' = "retry"
                                   /\ UNCHANGED << cpc, crawl_ret, current_path, outcome >>

\* The while condition of the retry loop fails: the trailing Err of
\* process_folder_contents (client.rs 214).
RetryLoopExit ==
    /\ FolderDone(FALSE, "failed")
    /\ UNCHANGED << url_path, visited_paths, directories_to_process, entries_with_paths,
                    retry_count, enq_log, deq_log, list_calls, last_served >>

\* while retry_count <= MAX_RETRIES { .. }  Err(..)
RetryLoop(resp) ==
    /\ cpc = "list"
    /\ IF retry_count <= MAX_RETRIES THEN ListAttempt(resp) ELSE RetryLoopExit

CrawlStep ==
    /\ \/ PopDir
       \/ CrawlReturn
       \/ \E resp \in Responses(MaxItems - Len(entries_with_paths)) : RetryLoop(resp)
    /\ UNCHANGED << dl_vars, rerun_hist, aux_vars >>

vars == << crawl_vars, crawl_hist, dl_vars, rerun_hist, aux_vars >>

Next == CrawlStep

Spec == CrawlInit /\ [][Next]_vars

\* Every call returns, and the single crawl task is always scheduled.
FairSpec == Spec /\ WF_vars(Next)

\* ======================================================== download model
\* ------------------------------------------------------------ strings
\* str::to_lowercase on the characters a hash can hold
LowerChar(c) ==
    CASE c = "A" -> "a" [] c = "B" -> "b" [] c = "C" -> "c"
      [] c = "D" -> "d" [] c = "E" -> "e" [] c = "F" -> "f"
      [] OTHER -> c
ToLower(str) == [i \in DOMAIN str |-> LowerChar(str[i])]

\* str::trim_start_matches('/')
RECURSIVE TrimStartSlashes(_)
TrimStartSlashes(str) ==
    IF str # <<>> /\ Head(str) = "/" THEN TrimStartSlashes(Tail(str)) ELSE str

\* PathBuf::from(local_path).push(relative): the separator is added unless the
\* base already ends with one; pushing an empty path adds a trailing separator.
PathPush(base, rel) ==
    IF base # <<>> /\ base[Len(base)] = "/" THEN base \o rel ELSE base \o <<"/">> \o rel

\* download.rs 26-31, operations.rs 120-123
LocalDest(local_path, path_str) == PathPush(local_path, TrimStartSlashes(path_str))

\* The output directory given on the command line.
OutDir == <<"o", "u", "t">>

\* Path::extension: the text after the last '.' of the last component; none
\* when there is no '.', or when the only '.' starts the component.
RECURSIVE LastIndexOf(_, _, _)
LastIndexOf(str, ch, i) ==
    IF i = 0 THEN 0 ELSE IF str[i] = ch THEN i ELSE LastIndexOf(str, ch, i - 1)
FileName(path) == SubSeq(path, LastIndexOf(path, "/", Len(path)) + 1, Len(path))
Extension(path) ==
    LET name == FileName(path)
        dot  == LastIndexOf(name, ".", Len(name))
    IN  IF name = <<>> \/ name = <<".", ".">> \/ dot <= 1 THEN None
        ELSE Some(SubSeq(name, dot + 1, Len(name)))

\* types.rs META_SUFF and is_metadata_file
META_SUFF == { <<"n", "f", "o">>, <<"j", "p", "g">>, <<"p", "n", "g">>, <<"s", "v", "g">>,
               <<"a", "s", "s">>, <<"s", "r", "t">>, <<"s", "u", "p">>, <<"v", "t", "t">>,
               <<"t", "x", "t">> }
is_metadata_file(ext) == ext \in META_SUFF

\* ------------------------------------------------------------ hashing
\* File contents are short byte strings over x, y, z.  The digests are
\* injective stand-ins for SHA-1 and MD5: each byte becomes one hex digit,
\* MD5 in reverse order.  format!("{:x}") gives lower case.
HexDigit(b) == CASE b = "x" -> "a" [] b = "y" -> "1" [] OTHER -> "2"
Reverse(str) == [i \in DOMAIN str |-> str[Len(str) + 1 - i]]
Sha1Hex(content) == [i \in DOMAIN content |-> HexDigit(content[i])]
Md5Hex(content) == Reverse(Sha1Hex(content))

\* types.rs HashObject::as_hash_str
as_hash_strMutNoLower(h) == h.hex
as_hash_str(h) == ToLower(h.hex)

\* crypto.rs HashObject::compute_file_checksum
compute_file_checksumMutSha1(h, content) == Sha1Hex(content)
compute_file_checksum(h, content) ==
    IF h.tag = "sha1" THEN Sha1Hex(content) ELSE Md5Hex(content)

\* crypto.rs HashObject::verify_file_checksum: false when the file is absent
verify_file_checksumMutAbsentOk(h, files, path) ==
    \/ path \notin DOMAIN files
    \/ compute_file_checksum(h, files[path]) = as_hash_str(h)
verify_file_checksum(h, files, path) ==
    /\ path \in DOMAIN files
    /\ compute_file_checksum(h, files[path]) = as_hash_str(h)

\* file_ops.rs provider_checksum
provider_checksum(f) == f.provider # <<"BaiduNetdisk">>

\* The hash handed to download_file_with_retries:
\* download.rs 39-43 applies provider_checksum, operations.rs 131 does not.
ExpectedHash(pl, f) ==
    IF pl = "folders"
    THEN IF provider_checksum(f) THEN f.entry.hash_info ELSE None
    ELSE f.entry.hash_info

\* ------------------------------------------------------------ work lists
\* main.rs 174-183: the files with an extension; operations.rs 94-97: of those,
\* the ones copy_metadata keeps.
FilesCopy(res) ==
    LET Keep(x) == /\ ~x.entry.is_dir
                   /\ Extension(x.path_str) # None
                   /\ is_metadata_file(Unwrap(Extension(x.path_str)))
    IN  SelectSeq(res, Keep)

\* download.rs 24: `for f in res` spawns a task for every crawled item.
FoldersWork(res) == res

WorkList(pl, res) == IF pl = "folders" THEN FoldersWork(res) ELSE FilesCopy(res)

\* A task as spawned, before it runs.  dest is the local destination;
\* checksum the hash handed to the download; dl_ok the result of
\* download_file_with_retries and ok the result of the task's future.  The
\* last four fields are history: the number of file-info calls issued, whether
\* a GET request was issued, whether the destination file was written, and
\* whether the destination matched the expected hash when the first attempt
\* began.  raw_url is the URL get_raw_url returned; err the error the task
\* holds: of its last failed attempt while it retries, of its result when done
\* ("url": get_raw_url failed; "io": the GET or the stream failed;
\* "mismatch": the checksum test after the write failed); streamed tells
\* whether the last attempt wrote the whole response body, so that the test
\* after the write was reached.  waits are the delays slept between the
\* attempts so far, in milliseconds.
NewTask(f) ==
    [ item |-> f, dest |-> LocalDest(OutDir, f.path_str), pc |-> "spawned",
      attempt |-> 0, checksum |-> None, raw_url |-> None, err |-> "none",
      streamed |-> FALSE, dl_ok |-> FALSE, ok |-> FALSE,
      info_calls |-> 0, did_get |-> FALSE, did_write |-> FALSE, pre_match |-> FALSE,
      waits |-> <<>> ]

\* ------------------------------------------------------------ responses
\* What the file-info call can give back (operations.rs 46-66): Ok(raw_url)
\* iff the status is 2xx, the body decodes and data is a FileInfo.
UrlResponses ==
    ErrResponses
    \cup { ApiResponse(200, None), ApiResponse(200, Some(FileInfoData)),
           ApiResponse(500, Some(FileInfoData)) }
get_raw_url_ok(resp) ==
    /\ resp.kind = "resp"
    /\ IsSome(resp.data)
    /\ Unwrap(resp.data).shape = "file"

\* Bodies the download URL can serve; the first one hashes to the remote hash.
Bodies == { <<"x", "y">>, <<"x", "z">> }
\* What the streaming GET can give: a request failure or non-2xx status, or a
\* body that is streamed whole or breaks after its first chunk.  `settled`
\* tells whether the write of the last chunk, which tokio's File hands to a
\* blocking thread when write_all returns, has reached the file by the time
\* the verifying read opens the path (file_ops.rs 180-188: no flush between).
OutcomesOf(bodies) ==
    { [kind |-> "fail"] }
    \cup { [kind |-> "body", body |-> b, whole |-> FALSE, settled |-> TRUE] : b \in bodies }
    \cup { [kind |-> "body", body |-> b, whole |-> TRUE, settled |-> st] :
              b \in bodies, st \in BOOLEAN }
GetOutcomes == OutcomesOf(Bodies)

\* Observation for the claims: the destination holds a file whose digest, by
\* the algorithm of the expected hash, is the expected hash in lower case.
ObsLocalMatches(files, dest, expected) ==
    /\ expected # None
    /\ dest \in DOMAIN files
    /\ (IF expected[1].tag = "sha1" THEN Sha1Hex(files[dest]) ELSE Md5Hex(files[dest]))
          = ToLower(expected[1].hex)

\* ------------------------------------------------------------ actions
\* The crawl results the pipelines start from: the crawl of a root whose
\* listing has the rows `content` (every subdirectory being empty or failing).
CrawlOf(root, content, provider) ==
    ProcessContent(content, root, provider,
        [entries |-> <<>>, queue |-> <<>>, visited |-> {root}]).entries

\* Local files present before the run: any of the destinations may already
\* hold the content that hashes to the remote hash.
Dests(work) == { LocalDest(OutDir, work[i].path_str) : i \in DOMAIN work }
InitialFiles(work) ==
    UNION { [D -> { <<"x", "y">> }] : D \in SUBSET Dests(work) }

\* The root and the listing rows the download runs are started from: a
\* directory, and a metadata file served with and without a hash.
DlRoots == { <<"/", "A">> }
DlEntries ==
    { [name |-> <<"a">>, is_dir |-> TRUE, hash_info |-> None] }
    \cup { [name |-> <<"p", ".", "j", "p", "g">>, is_dir |-> FALSE, hash_info |-> h] :
              h \in HashOpts }

\* The listings tried: up to MaxItems rows, directories first, then the files
\* with a hash, then the files without (one representative per multiset of
\* rows; repeated rows are kept).
RowRank(e) == IF e.is_dir THEN 0 ELSE IF e.hash_info # None THEN 1 ELSE 2
DlListings ==
    { c \in SeqsUpTo(DlEntries, MaxItems) :
        \A k \in 1..(Len(c) - 1) : RowRank(c[k]) <= RowRank(c[k + 1]) }

DlInit ==
    /\ url_path \in DlRoots
    /\ \E content \in DlListings, provider \in Providers :
          entries_with_paths = CrawlOf(url_path, content, provider)
    /\ crawl_ret = Some([ok |-> TRUE, val |-> entries_with_paths])
    /\ cpc = "returned"
    /\ visited_paths = {}
    /\ directories_to_process = <<>>
    /\ current_path = None
    /\ retry_count = 0
    /\ enq_log = <<>>
    /\ deq_log = <<>>
    /\ list_calls = 0
    /\ last_event = "return"
    /\ last_served = "none"
    /\ outcome = << >>
    /\ pipeline \in { "folders", "metadata" }
    /\ limit \in 1..MaxThreads
    /\ dpc = "init"
    /\ tasks = <<>>
    /\ slots_free = limit
    /\ fs \in InitialFiles(WorkList(pipeline, entries_with_paths))
    /\ succeeded = 0
    /\ failed = 0
    /\ failed_files = <<>>
    /\ dl_ret = None
    /\ RerunIdle
    /\ AuxIdle

\* The spawn loop of download_folders (download.rs 24-55), resp. the stream
\* of futures copy_metadata builds (operations.rs 112-143).
SpawnTasks ==
    /\ dpc = "init"
    /\ LET work == WorkList(pipeline, Unwrap(crawl_ret).val)
       IN  tasks' = [i \in DOMAIN work |-> NewTask(work[i])]
    /\ dpc' = "running"
    /\ UNCHANGED << pipeline, limit, slots_free, fs, succeeded, failed, failed_files, dl_ret >>

\* A task may take a slot: semaphore.acquire() needs a permit;
\* buffer_unordered polls the next future, in order, while fewer than the
\* limit are in progress.
CanStartMutNoLimit(i) == pipeline = "metadata" => \A j \in 1..(i - 1) : tasks[j].pc # "spawned"
CanStart(i) ==
    /\ slots_free > 0
    /\ pipeline = "metadata" => \A j \in 1..(i - 1) : tasks[j].pc # "spawned"

TaskStart(i) ==
    /\ dpc = "running"
    /\ tasks[i].pc = "spawned"
    /\ CanStart(i)
    /\ tasks' = [tasks EXCEPT ![i].pc = "url"]
    /\ slots_free' = slots_free - 1
    /\ UNCHANGED << pipeline, limit, dpc, fs, succeeded, failed, failed_files, dl_ret >>

\* `_permit` is dropped when the task's future ends, by return or by `?`
\* (download.rs 37-53): the semaphore gets the permit back.
DropPermitMutLeak(free) == free
DropPermit(free) == free + 1

\* The task's future ends: its permit (or buffer slot) is given back.
TaskEndsMutAbortAll(i, t, ok) ==
    /\ tasks' = [ j \in DOMAIN tasks |->
                    IF j = i
                    THEN [t EXCEPT !.pc = "done", !.ok = ok, !.checksum = None]
                    ELSE IF ~ok /\ tasks[j].pc = "spawned"
                         THEN [tasks[j] EXCEPT !.pc = "joined"]
                         ELSE tasks[j] ]
    /\ slots_free' = slots_free + 1
TaskEnds(i, t, ok) ==
    /\ tasks' = [tasks EXCEPT ![i] =
                   [t EXCEPT !.pc = "done", !.ok = ok, !.checksum = None]]
    /\ slots_free' = DropPermit(slots_free)

\* get_raw_url(&client, &f).await?  followed by the choice of the hash.
GetRawUrl(i, resp) ==
    /\ dpc = "running"
    /\ tasks[i].pc = "url"
    /\ LET t == [tasks[i] EXCEPT !.info_calls = @ + 1]
       IN  IF get_raw_url_ok(resp)
           THEN /\ tasks' = [tasks EXCEPT ![i] =
                      [t EXCEPT !.pc = "attempt", !.attempt = 1,
                                !.raw_url = Some(Unwrap(resp.data).raw_url),
                                !.checksum = ExpectedHash(pipeline, t.item)]]
                /\ UNCHANGED slots_free
           ELSE TaskEnds(i, [t EXCEPT !.err = "url"], FALSE)
    /\ UNCHANGED << pipeline, limit, dpc, fs, succeeded, failed, failed_files, dl_ret >>

\* attempt_download_file's first test (file_ops.rs 144-150): skip the
\* download when the destination already verifies against the checksum.
PreCheckMutNever(checksum, files, dest) == FALSE
PreCheckMutRaw(checksum, files, dest) ==
    /\ IsSome(checksum)
    /\ dest \in DOMAIN files
    /\ compute_file_checksum(Unwrap(checksum), files[dest]) = Unwrap(checksum).hex
PreCheck(checksum, files, dest) ==
    IsSome(checksum) /\ verify_file_checksum(Unwrap(checksum), files, dest)

\* file_ops.rs 78-79: the delay slept after failed attempt number `attempt`,
\* min(INITIAL_BACKOFF_MS * 2_u64.pow(attempt - 1), MAX_BACKOFF_MS).  attempt is
\* below MAX_RETRIES here, so the u64 product is far from wrapping.
RECURSIVE Pow2(_)
Pow2(n) == IF n = 0 THEN 1 ELSE 2 * Pow2(n - 1)
backoff_msMutFixed(attempt) == INITIAL_BACKOFF_MS
backoff_ms(attempt) ==
    LET raw == INITIAL_BACKOFF_MS * Pow2(attempt - 1)
    IN  IF raw < MAX_BACKOFF_MS THEN raw ELSE MAX_BACKOFF_MS

\* The outcome of one attempt in download_file_with_retries
\* (file_ops.rs 72-96): success ends the download; a failure is retried until
\* attempt reaches MAX_RETRIES.  download_folders returns the download's
\* result from the task (download.rs 45-53); copy_metadata logs a failed
\* download and returns Ok(()) (operations.rs 128-141).
AttemptEndsMutOneMore(i, t, ok) ==
    IF ok THEN TaskEnds(i, [t EXCEPT !.dl_ok = TRUE], TRUE)
    ELSE IF t.attempt <= DL_MAX_RETRIES
         THEN /\ tasks' = [tasks EXCEPT ![i] =
                    [t EXCEPT !.attempt = @ + 1, !.waits = Append(@, backoff_ms(t.attempt))]]
              /\ UNCHANGED slots_free
         ELSE TaskEnds(i, t, pipeline = "metadata")
AttemptEnds(i, t, ok) ==
    IF ok THEN TaskEnds(i, [t EXCEPT !.dl_ok = TRUE], TRUE)
    ELSE IF t.attempt < DL_MAX_RETRIES
         THEN /\ tasks' = [tasks EXCEPT ![i] =
                    [t EXCEPT !.attempt = @ + 1, !.waits = Append(@, backoff_ms(t.attempt))]]
              /\ UNCHANGED slots_free
         ELSE TaskEnds(i, t, pipeline = "metadata")

\* The file system after the checksum test failed (file_ops.rs 189-193): the
\* error is returned and the file that was written stays.
AfterMismatchMutRemove(files, dest) == [d \in DOMAIN files \ {dest} |-> files[d]]
AfterMismatch(files, dest) == files

\* What a read through a second handle finds at the destination right after
\* the write loop (file_ops.rs 180-182): every chunk of the body, or, while
\* the last write is still with the blocking thread, all chunks but the last.
\* The write is complete once the attempt's error has been slept on.
SeenByVerifyMutFlushed(written, settled) == written
SeenByVerify(written, settled) ==
    IF settled THEN written ELSE SubSeq(written, 1, Len(written) - 1)

\* attempt_download_file (file_ops.rs 135-198) as a function of the checksum,
\* the file system, the destination and what the GET gives: the error it
\* ends with ("none" for Ok), the file system it leaves and what it did.
attempt_download_file(checksum, files, dest, got) ==
    IF PreCheck(checksum, files, dest)
    THEN [err |-> "none", fs |-> files, did_get |-> FALSE, did_write |-> FALSE,
          streamed |-> FALSE]
    ELSE IF got.kind = "fail"
    THEN [err |-> "io", fs |-> files, did_get |-> TRUE, did_write |-> FALSE,
          streamed |-> FALSE]
    ELSE LET written == IF got.whole THEN got.body ELSE SubSeq(got.body, 1, 1)
             after   == (dest :> written) @@ files
             seen_fs == (dest :> SeenByVerify(written, got.settled)) @@ files
             e       == IF ~got.whole THEN "io"
                        ELSE IF IsSome(checksum) /\
                                ~verify_file_checksum(Unwrap(checksum), seen_fs, dest)
                             THEN "mismatch"
                             ELSE "none"
         IN  [err |-> e,
              fs |-> IF e = "mismatch" THEN AfterMismatch(after, dest) ELSE after,
              did_get |-> TRUE, did_write |-> TRUE, streamed |-> got.whole]

\* One call of attempt_download_file by a task (file_ops.rs 72-75).
Attempt(i, got) ==
    /\ dpc = "running"
    /\ tasks[i].pc = "attempt"
    /\ LET t0 == tasks[i]
           t  == IF t0.attempt = 1
                 THEN [t0 EXCEPT !.pre_match = ObsLocalMatches(fs, t0.dest, t0.checksum)]
                 ELSE t0
           r  == attempt_download_file(t.checksum, fs, t.dest, got)
       IN  /\ fs' = r.fs
           /\ AttemptEnds(i, [t EXCEPT !.err = r.err, !.streamed = r.streamed,
                                       !.did_get = @ \/ r.did_get,
                                       !.did_write = @ \/ r.did_write],
                          r.err = "none")
    /\ UNCHANGED << pipeline, limit, dpc, succeeded, failed, failed_files, dl_ret >>

\* format!("Download error: {}", e) (download.rs 67-71): e is get_raw_url's
\* error, which names nothing, or download_file_with_retries' "Failed after {}
\* attempts for '{}': {}" with the attempt number, the raw URL and the last
\* attempt's error (file_ops.rs 89-94).  args are the values interpolated.
ErrorMsg(t) ==
    [ text  |-> "Download error",
      error |-> t.err,
      attempts |-> IF t.err = "url" THEN None ELSE Some(t.attempt),
      args  |-> IF t.err = "url" THEN <<>> ELSE << Unwrap(t.raw_url) >> ]

\* tasks.join_next() (download.rs 61-80), resp. for_each (operations.rs 147-154):
\* the result is consumed and the task is gone; only its item is kept.
JoinNextMutNoCount(i) ==
    /\ dpc = "running"
    /\ tasks[i].pc = "done"
    /\ tasks' = [tasks EXCEPT ![i] = [NewTask(tasks[i].item) EXCEPT !.pc = "joined"]]
    /\ IF pipeline = "folders"
       THEN /\ succeeded' = IF tasks[i].ok THEN succeeded + 1 ELSE succeeded
            /\ failed' = failed
            /\ failed_files' = IF tasks[i].ok THEN failed_files
                               ELSE Append(failed_files, ErrorMsg(tasks[i]))
       ELSE UNCHANGED << succeeded, failed, failed_files >>
    /\ UNCHANGED << pipeline, limit, dpc, slots_free, fs, dl_ret >>
JoinNext(i) ==
    /\ dpc = "running"
    /\ tasks[i].pc = "done"
    /\ tasks' = [tasks EXCEPT ![i] = [NewTask(tasks[i].item) EXCEPT !.pc = "joined"]]
    /\ IF pipeline = "folders"
       THEN /\ succeeded' = IF tasks[i].ok THEN succeeded + 1 ELSE succeeded
            /\ failed' = IF tasks[i].ok THEN failed ELSE failed + 1
            /\ failed_files' = IF tasks[i].ok THEN failed_files
                               ELSE Append(failed_files, ErrorMsg(tasks[i]))
       ELSE UNCHANGED << succeeded, failed, failed_files >>
    /\ UNCHANGED << pipeline, limit, dpc, slots_free, fs, dl_ret >>

\* Every task is joined: the summary and the return value
\* (download.rs 82-100, operations.rs 156-158).
PipelineReturnsMutStrict ==
    /\ dpc = "running"
    /\ \A i \in DOMAIN tasks : tasks[i].pc = "joined"
    /\ dpc' = "finished"
    /\ dl_ret' = IF \/ pipeline = "folders" /\ failed_files # <<>>
                    \/ \E i \in DOMAIN tasks : tasks[i].dest \notin DOMAIN fs
                 THEN Some("err") ELSE Some("ok")
    /\ UNCHANGED << pipeline, limit, tasks, slots_free, fs, succeeded, failed, failed_files >>
PipelineReturns ==
    /\ dpc = "running"
    /\ \A i \in DOMAIN tasks : tasks[i].pc = "joined"
    /\ dpc' = "finished"
    /\ dl_ret' = IF pipeline = "folders" /\ failed_files # <<>> THEN Some("err") ELSE Some("ok")
    /\ UNCHANGED << pipeline, limit, tasks, slots_free, fs, succeeded, failed, failed_files >>

DlActions ==
    \/ SpawnTasks
    \/ \E i \in DOMAIN tasks : TaskStart(i)
    \/ \E i \in DOMAIN tasks, resp \in UrlResponses : GetRawUrl(i, resp)
    \/ \E i \in DOMAIN tasks, got \in GetOutcomes : Attempt(i, got)
    \/ \E i \in DOMAIN tasks : JoinNext(i)
    \/ PipelineReturns

DlStep ==
    /\ DlActions
    /\ UNCHANGED << crawl_vars, crawl_hist, rerun_hist, aux_vars >>

DlSpec == DlInit /\ [][DlStep]_vars

\* download_folders alone; its tasks are tokio tasks on a running runtime and
\* every request ends (reqwest timeout), so a step that can be taken is taken.
FoldersInit == DlInit /\ pipeline = "folders"
FoldersSpec == FoldersInit /\ [][DlStep]_vars
\* The fair runs start with an empty output directory, a trusted provider
\* and a hash on every file.
FoldersFairInit ==
    /\ FoldersInit
    /\ fs = << >>
    /\ \A k \in DOMAIN entries_with_paths :
          /\ entries_with_paths[k].provider # <<"BaiduNetdisk">>
          /\ entries_with_paths[k].entry.is_dir \/ entries_with_paths[k].entry.hash_info # None
FoldersFairSpec == FoldersFairInit /\ [][DlStep]_vars /\ WF_vars(DlStep)

\* copy_metadata alone.
MetadataInit == DlInit /\ pipeline = "metadata"
MetadataSpec == MetadataInit /\ [][DlStep]_vars

\* ------------------------------------------------------------ second run
\* The same pipeline is run again on the same crawl result and the files the
\* first run left: everything but the file system starts afresh.
Rerun ==
    /\ dpc = "finished"
    /\ run = 1
    /\ run' = 2
    /\ dpc' = "init"
    /\ tasks' = <<>>
    /\ slots_free' = limit
    /\ succeeded' = 0
    /\ failed' = 0
    /\ failed_files' = <<>>
    /\ dl_ret' = None
    /\ UNCHANGED << pipeline, limit, fs, verified, crawl_vars, crawl_hist, aux_vars >>

\* Observation of run 1: task i's download ended in success while it held an
\* expected hash; the content of its destination at that moment is recorded.
VerifiedNext ==
    IF run # 1 THEN verified
    ELSE [ i \in DOMAIN tasks' |->
             IF /\ i \in DOMAIN tasks
                /\ tasks[i].pc = "attempt"
                /\ IsSome(tasks[i].checksum)
                /\ tasks'[i].pc = "done"
                /\ tasks'[i].dl_ok
             THEN Some(fs'[tasks[i].dest])
             ELSE IF i \in DOMAIN verified THEN verified[i] ELSE None ]

RerunStep ==
    \/ /\ DlActions
       /\ verified' = VerifiedNext
       /\ UNCHANGED << run, crawl_vars, crawl_hist, aux_vars >>
    \/ Rerun

\* Two runs in a row, one task at a time in each.
RerunInit == DlInit /\ limit = 1
RerunSpec == RerunInit /\ [][RerunStep]_vars

\* ------------------------------------------------------------- helpers
Range(s) == { s[i] : i \in DOMAIN s }
NoDup(s) == \A i, j \in DOMAIN s : i # j => s[i] # s[j]
IsPrefix(s, t) == Len(s) <= Len(t) /\ SubSeq(t, 1, Len(s)) = s

\* ========================================================= AutoSym model
\* ------------------------------------------------------------ paths
\* Path::components of a relative path: the names between the separators
\* (repeated and trailing separators give no component).
RECURSIVE FirstIndexOf(_, _, _)
FirstIndexOf(str, ch, i) ==
    IF i > Len(str) THEN 0 ELSE IF str[i] = ch THEN i ELSE FirstIndexOf(str, ch, i + 1)
RECURSIVE Components(_)
Components(str) ==
    IF str = <<>> THEN <<>>
    ELSE LET k == FirstIndexOf(str, "/", 1)
         IN  IF k = 0 THEN << str >>
             ELSE IF k = 1 THEN Components(Tail(str))
             ELSE << SubSeq(str, 1, k - 1) >> \o Components(SubSeq(str, k + 1, Len(str)))
RECURSIVE JoinComps(_)
JoinComps(cs) ==
    IF cs = <<>> THEN <<>>
    ELSE IF Len(cs) = 1 THEN cs[1]
    ELSE cs[1] \o <<"/">> \o JoinComps(Tail(cs))
\* The node of the local tree a path string names.
Norm(str) == JoinComps(Components(str))

\* Path::strip_prefix: component-wise, Err when base is not a prefix.
StripPrefix(path, base) ==
    LET p == Components(path)
        b == Components(base)
    IN  IF IsPrefix(b, p) THEN Some(JoinComps(SubSeq(p, Len(b) + 1, Len(p)))) ELSE None

\* Path::with_extension / PathBuf::set_extension: the text after the last '.'
\* of the file name is replaced; a name without extension gets one appended.
WithExtension(path, ext) ==
    IF Extension(path) = None THEN path \o <<".">> \o ext
    ELSE SubSeq(path, 1, Len(path) - Len(Unwrap(Extension(path)))) \o ext

Strm == <<"s", "t", "r", "m">>

\* types.rs / alist_api.rs FILE_STRM and is_streamable_file
FILE_STRM == { <<"m", "k", "v">>, <<"i", "s", "o">>, <<"t", "s">>, <<"m", "p", "4">>,
               <<"a", "v", "i">>, <<"r", "m", "v", "b">>, <<"w", "m", "v">>,
               <<"m", "2", "t", "s">>, <<"m", "p", "g">>, <<"f", "l", "v">>, <<"r", "m">>,
               <<"m", "o", "v">>, <<"w", "a", "v">>, <<"m", "p", "3">> }
is_streamable_fileMutUpper(ext) == ext \in FILE_STRM \cup { <<"M", "P", "4">> }
is_streamable_file(ext) == ext \in FILE_STRM

\* ------------------------------------------------------------ expected set
\* main.rs 190-200: the closure applied to the path of every crawled item.
ExpectedPathMutVerbatim(file) == file
ExpectedPath(file) ==
    IF Extension(file) # None /\ is_streamable_file(Unwrap(Extension(file)))
    THEN WithExtension(file, Strm)
    ELSE file

\* main.rs 187-201: files_set, collected from every item of the crawl result.
FilesSet(res) == { ExpectedPath(res[i].path_str) : i \in DOMAIN res }

\* main.rs 174-183 and alist_api.rs 717-719: the files create_strm_file handles.
FilesStrm(res) ==
    LET Keep(x) == /\ ~x.entry.is_dir
                   /\ Extension(x.path_str) # None
                   /\ is_streamable_file(Unwrap(Extension(x.path_str)))
    IN  SelectSeq(res, Keep)

\* alist_api.rs 738-741: where the placeholder of an item is written.
StrmDest(local_path, path_str) == WithExtension(LocalDest(local_path, path_str), Strm)

\* ------------------------------------------------------------ local tree
\* The directories above a node.
Ancestors(node) ==
    LET cs == Components(node)
    IN  { JoinComps(SubSeq(cs, 1, k)) : k \in 1..(Len(cs) - 1) }
IsUnder(node, dir) ==
    /\ Len(Components(dir)) < Len(Components(node))
    /\ IsPrefix(Components(dir), Components(node))
InSubtree(node, root) == node = root \/ IsUnder(node, root)
\* remove_dir succeeds on a directory that holds nothing.
DirEmpty(dir, files, dirs) == ~\E n \in files \cup dirs : IsUnder(n, dir)

\* main.rs 96: let folder_path = local_path.clone() + &url_path
FolderPath(local_path, url) == local_path \o url

\* The path WalkDir yields for a node: the root as it was given, a child as
\* its parent's path joined with its name.
WalkPath(node, folder_path) ==
    IF node = Norm(folder_path) THEN folder_path
    ELSE PathPush(folder_path, Unwrap(StripPrefix(node, folder_path)))

\* main.rs 103-112: the filter that keeps a walked file for reporting.
NotExistingMutAll(file_path, local_path, existing_files) == TRUE
NotExisting(file_path, local_path, existing_files) ==
    LET rel == StripPrefix(file_path, local_path)
    IN  IF rel = None THEN TRUE
        ELSE (<<"/">> \o Unwrap(rel)) \notin existing_files

\* main.rs 125: contents_first(true), a directory is yielded after everything
\* below it (siblings in the order the file system lists them).
ContentsFirstMutParentsFirst(dir, walk_dirs, yielded) ==
    \A n \in walk_dirs : IsUnder(dir, n) => n \in yielded
ContentsFirst(dir, walk_dirs, yielded) ==
    \A n \in walk_dirs : IsUnder(n, dir) => n \in yielded

\* The nodes the two walks of remove_noexist_files yield.
WalkRoot == Norm(FolderPath(OutDir, url_path))
WalkFiles == { n \in lfiles1 : InSubtree(n, WalkRoot) }
WalkDirs == { n \in ldirs1 : InSubtree(n, WalkRoot) }

\* ------------------------------------------------------------ initial states
\* The crawl has returned res.
CrawlGave(res) ==
    /\ entries_with_paths = res
    /\ crawl_ret = Some([ok |-> TRUE, val |-> res])
    /\ cpc = "returned"
    /\ visited_paths = {}
    /\ directories_to_process = <<>>
    /\ current_path = None
    /\ retry_count = 0
    /\ enq_log = <<>>
    /\ deq_log = <<>>
    /\ list_calls = 0
    /\ last_event = "return"
    /\ last_served = "none"
    /\ outcome = << >>

\* The listing rows AutoSym runs are started from: a directory, a file
\* without extension, a metadata file and a streamable file.
SymEntries ==
    { [name |-> <<"a">>, is_dir |-> d, hash_info |-> None] : d \in BOOLEAN }
    \cup { [name |-> n, is_dir |-> FALSE, hash_info |-> None] :
              n \in { <<"p", ".", "j", "p", "g">>, <<"m", ".", "m", "k", "v">> } }
SymRank(e) ==
    IF e.is_dir THEN 0
    ELSE IF e.name = <<"a">> THEN 1
    ELSE IF e.name = <<"p", ".", "j", "p", "g">> THEN 2 ELSE 3
SymListings ==
    { c \in SeqsUpTo(SymEntries, MaxItems) :
        \A k \in 1..(Len(c) - 1) : SymRank(c[k]) <= SymRank(c[k + 1]) }

\* Files that may lie below the walked folder before the run, relative to it,
\* and directories that may exist without holding a file.
LocalRel == { <<"p", ".", "j", "p", "g">>, <<"m", ".", "s", "t", "r", "m">>,
              <<"m", ".", "m", "k", "v">>,
              <<"a", "/", "b", "/", "p", ".", "j", "p", "g">> }
LocalFiles(root) == { Norm(FolderPath(OutDir, root) \o <<"/">> \o r) : r \in LocalRel }
ExtraDirs(root) ==
    { {}, { Norm(FolderPath(OutDir, root)) },
      { Norm(FolderPath(OutDir, root) \o <<"/", "a", "/", "b">>) } }
WithParents(nodes) == nodes \cup UNION { Ancestors(n) : n \in nodes }

\* The path the server knows an item of the crawl result by.
ServerPath(path_str) == <<"/">> \o Norm(path_str)
\* What the server may hold below the directories of a crawl result that has
\* no row for them: the listing of such a directory failed on every attempt
\* and fetch_folder_contents went on with the next one.
LostBelow(res) ==
    { ServerPath(res[i].path_str) \o <<"/", "b", "/", "p", ".", "j", "p", "g">> :
        i \in { j \in DOMAIN res : res[j].entry.is_dir } }

SymInit ==
    /\ url_path \in Roots
    /\ \E content \in SymListings : CrawlGave(CrawlOf(url_path, content, <<"Other">>))
    /\ DlOff
    /\ FnIdle
    /\ RlIdle
    /\ sym_pc = "start"
    /\ delete \in BOOLEAN
    /\ files_set = {}
    /\ lfiles \in SUBSET LocalFiles(url_path)
    /\ \E extra \in ExtraDirs(url_path) :
          ldirs = WithParents(extra) \cup UNION { Ancestors(f) : f \in lfiles }
    /\ locked \in { {} } \cup { { f } : f \in lfiles }
    /\ seen = {}
    /\ reported = {}
    /\ sym_ret = None
    /\ wrote = {}
    /\ steps_ok = TRUE
    /\ lfiles0 = lfiles
    /\ lfiles1 = {}
    /\ ldirs1 = {}
    /\ rm_log = <<>>
    /\ remote_lost \in SUBSET LostBelow(entries_with_paths)

\* ------------------------------------------------------------ actions
\* main.rs 185-186: copy_metadata, then create_strm_file.  A metadata download
\* that fails is logged and skipped; a placeholder that cannot be produced
\* ends the command with its error.
WriteOutputs ==
    /\ sym_pc = "start"
    /\ LET res  == Unwrap(crawl_ret).val
           meta == FilesCopy(res)
           strm == FilesStrm(res)
       IN  \E got \in SUBSET DOMAIN meta, strm_ok \in { TRUE } \cup { strm = <<>> } :
               LET new == { Norm(LocalDest(OutDir, meta[i].path_str)) : i \in got }
                          \cup (IF strm_ok
                                THEN { Norm(StrmDest(OutDir, strm[i].path_str)) : i \in DOMAIN strm }
                                ELSE {})
               IN  /\ lfiles' = lfiles \cup new
                   /\ ldirs' = ldirs \cup UNION { Ancestors(n) : n \in new }
                   /\ wrote' = new
                   /\ steps_ok' = (got = DOMAIN meta /\ strm_ok)
                   /\ sym_pc' = IF strm_ok THEN "written" ELSE "done"
                   /\ sym_ret' = IF strm_ok THEN None ELSE Some("err")
    /\ UNCHANGED << remote_lost, delete, files_set, locked, seen, reported, lfiles0, lfiles1, ldirs1, rm_log >>

\* main.rs 187-203 and 95-112: files_set is collected and the file walk begins.
StartReconcile ==
    /\ sym_pc = "written"
    /\ files_set' = FilesSet(Unwrap(crawl_ret).val)
    /\ lfiles1' = lfiles
    /\ seen' = {}
    /\ sym_pc' = "files"
    /\ UNCHANGED << remote_lost, delete, lfiles, ldirs, locked, reported, sym_ret, wrote, steps_ok,
                    lfiles0, ldirs1, rm_log >>

\* main.rs 120: fs::remove_file(entry.path()).await? -- where the command is
\* after a removal that failed.
AfterRemoveError == [pc |-> "done", ret |-> Some("err")]

\* main.rs 114-122: one iteration of the file loop, for a file the walk yields.
FilePass(f) ==
    /\ sym_pc = "files"
    /\ f \in WalkFiles \ seen
    /\ seen' = seen \cup { f }
    /\ IF NotExisting(WalkPath(f, FolderPath(OutDir, url_path)), OutDir, files_set)
       THEN /\ reported' = reported \cup { f }
            /\ IF delete /\ f \in locked
               THEN /\ sym_pc' = AfterRemoveError.pc
                    /\ sym_ret' = AfterRemoveError.ret
                    /\ UNCHANGED lfiles
               ELSE /\ lfiles' = IF delete THEN lfiles \ { f } ELSE lfiles
                    /\ UNCHANGED << sym_pc, sym_ret >>
       ELSE UNCHANGED << reported, lfiles, sym_pc, sym_ret >>
    /\ UNCHANGED << remote_lost, delete, files_set, ldirs, locked, wrote, steps_ok, lfiles0, lfiles1,
                    ldirs1, rm_log >>

\* main.rs 122-124: the file walk is exhausted, the directory walk begins.
FilePassEnds ==
    /\ sym_pc = "files"
    /\ WalkFiles \subseteq seen
    /\ sym_pc' = "dirs"
    /\ seen' = {}
    /\ ldirs1' = ldirs
    /\ UNCHANGED << remote_lost, delete, files_set, lfiles, ldirs, locked, reported, sym_ret, wrote,
                    steps_ok, lfiles0, lfiles1, rm_log >>

\* main.rs 124-134: one iteration of the directory loop.
DirPass(d) ==
    /\ sym_pc = "dirs"
    /\ d \in WalkDirs \ seen
    /\ ContentsFirst(d, WalkDirs, seen)
    /\ seen' = seen \cup { d }
    /\ IF DirEmpty(d, lfiles, ldirs)
       THEN /\ ldirs' = ldirs \ { d }
            /\ rm_log' = Append(rm_log, d)
       ELSE UNCHANGED << ldirs, rm_log >>
    /\ UNCHANGED << remote_lost, sym_pc, delete, files_set, lfiles, locked, reported, sym_ret, wrote,
                    steps_ok, lfiles0, lfiles1, ldirs1 >>

\* main.rs 136: Ok(())
SymReturns ==
    /\ sym_pc = "dirs"
    /\ WalkDirs \subseteq seen
    /\ sym_pc' = "done"
    /\ sym_ret' = Some("ok")
    /\ UNCHANGED << remote_lost, delete, files_set, lfiles, ldirs, locked, seen, reported, wrote,
                    steps_ok, lfiles0, lfiles1, ldirs1, rm_log >>

SymActions ==
    \/ WriteOutputs
    \/ StartReconcile
    \/ \E f \in lfiles1 : FilePass(f)
    \/ FilePassEnds
    \/ \E d \in ldirs1 : DirPass(d)
    \/ SymReturns

SymStep ==
    /\ SymActions
    /\ UNCHANGED << crawl_vars, crawl_hist, dl_vars, rerun_hist, fn_vars, rl_vars >>

SymSpec == SymInit /\ [][SymStep]_vars

\* ==================================================== rate limiter model
\* rate_limiter.rs 16-22: one process-wide limiter; the quota is tpslimit
\* cells per second, 1 when tpslimit is 0.
RlQuota == 1

\* The callers of the limiter: 0 is the crawler, 1..MaxThreads the download
\* workers.  The crawler issues list calls (client.rs 79), a worker file-info
\* calls (operations.rs 46) and streaming GETs (file_ops.rs 153).
RlCallers == 0..MaxThreads
RlKinds(c) == IF c = 0 THEN { "list" } ELSE { "get", "download" }
\* The wrapper a call site goes through.
RlWrapper(kind) == IF kind = "download" THEN "rate_limited_get" ELSE "rate_limited_request"

\* A caller's call: pc is "idle", "waiting" (inside timeout(until_ready)),
\* "granted" (the wait returned Ok), "sent" (send() was called) or "done";
\* result is "none", "ok", "request failed" or "Rate limiter timeout".
\* acquired and timed_out are history.
\* wait_secs is the duration the wait for a cell was armed with, req_secs the
\* timeout set on the request (None until then).
RlIdleCall == [kind |-> "none", wrapper |-> "none", pc |-> "idle", result |-> "none",
               acquired |-> FALSE, timed_out |-> FALSE, wait_secs |-> None, req_secs |-> None]

\* lib.rs 37: the default timeout is 10 seconds; any value can be configured.
Timeouts == { 1, 10 }

\* rate_limiter.rs 50-51, 88-89: timeout(Duration::from_secs(timeout_secs), ..)
WaitTimeoutMutHalf(timeout_secs) == timeout_secs \div 2
WaitTimeout(timeout_secs) == timeout_secs
\* rate_limiter.rs 60, 98: .timeout(Duration::from_secs(timeout_secs))
RequestTimeout(timeout_secs) == timeout_secs

RlInit ==
    /\ url_path = <<"/">>
    /\ CrawlGave(<<>>)
    /\ DlOff
    /\ SymIdle
    /\ FnIdle
    /\ rl_tokens \in 0..RlQuota
    /\ rl_calls = [c \in RlCallers |-> RlIdleCall]
    /\ rl_sent = <<>>
    /\ rl_timeout \in Timeouts

\* A call site enters rate_limited_request / rate_limited_get.
RlBegin(c, kind) ==
    /\ rl_calls[c].pc = "idle"
    /\ rl_calls' = [rl_calls EXCEPT ![c] = [@ EXCEPT !.kind = kind, !.wrapper = RlWrapper(kind),
                                                     !.pc = "waiting",
                                                     !.wait_secs = Some(WaitTimeout(rl_timeout))]]
    /\ UNCHANGED << rl_tokens, rl_sent, rl_timeout >>

\* rate_limiter.rs 50-55, 88-93: until_ready() resolves, a cell is consumed.
RlAcquire(c) ==
    /\ rl_calls[c].pc = "waiting"
    /\ rl_tokens > 0
    /\ rl_tokens' = rl_tokens - 1
    /\ rl_calls' = [rl_calls EXCEPT ![c] = [@ EXCEPT !.pc = "granted", !.acquired = TRUE]]
    /\ UNCHANGED << rl_sent, rl_timeout >>

\* rate_limiter.rs 55, 93: .map_err(|_| anyhow!("Rate limiter timeout"))?
AfterTimeoutMutSendAnyway(call) == [call EXCEPT !.pc = "granted", !.timed_out = TRUE]
AfterTimeout(call) ==
    [call EXCEPT !.pc = "done", !.result = "Rate limiter timeout", !.timed_out = TRUE]

\* The timer of tokio::time::timeout fires while no cell is available.
RlTimeout(c) ==
    /\ rl_calls[c].pc = "waiting"
    /\ rl_tokens = 0
    /\ rl_calls' = [rl_calls EXCEPT ![c] = AfterTimeout(@)]
    /\ UNCHANGED << rl_tokens, rl_sent, rl_timeout >>

\* rate_limiter.rs 58-65, 96-100: the request is built and send() is called.
RlSend(c) ==
    /\ rl_calls[c].pc = "granted"
    /\ rl_calls' = [rl_calls EXCEPT ![c] = [@ EXCEPT !.pc = "sent",
                                                     !.req_secs = Some(RequestTimeout(rl_timeout))]]
    /\ rl_sent' = Append(rl_sent, [caller |-> c, kind |-> rl_calls[c].kind])
    /\ UNCHANGED << rl_tokens, rl_timeout >>

\* send().await returns a response or a request error (the request timeout
\* included).
RlRespond(c, res) ==
    /\ rl_calls[c].pc = "sent"
    /\ rl_calls' = [rl_calls EXCEPT ![c] = [@ EXCEPT !.pc = "done", !.result = res]]
    /\ UNCHANGED << rl_tokens, rl_sent, rl_timeout >>

\* Time passes: the limiter has a cell again.
RlRefill ==
    /\ rl_tokens < RlQuota
    /\ rl_tokens' = rl_tokens + 1
    /\ UNCHANGED << rl_calls, rl_sent, rl_timeout >>

RlActions ==
    \/ \E c \in RlCallers : \E kind \in RlKinds(c) : RlBegin(c, kind)
    \/ \E c \in RlCallers : RlAcquire(c)
    \/ \E c \in RlCallers : RlTimeout(c)
    \/ \E c \in RlCallers : RlSend(c)
    \/ \E c \in RlCallers : \E res \in { "ok", "request failed" } : RlRespond(c, res)
    \/ RlRefill

RlStep ==
    /\ RlActions
    /\ UNCHANGED << crawl_vars, crawl_hist, dl_vars, rerun_hist, sym_vars, fn_vars >>

RlSpec == RlInit /\ [][RlStep]_vars

\* ================================================== pure functions model
\* One call of a function that reads nothing but its arguments: the call is
\* drawn in the initial state, the step applies the function.
\* ------------------------------------------------------------ inputs
\* Envelopes the file-info endpoint can answer with, next to the failures.
FnUrlResponses ==
    ErrResponses
    \cup { ApiResponse(code, data) :
              code \in { 200, 403, 500 },
              data \in { None, Some(FileInfoData), Some(FoldersInfo(<<>>, <<"Other">>)) } }
\* Remote hashes of either variant, in upper, lower and mixed case.
HexChars == { "A", "a", "1" }
FnHashes == { [tag |-> t, hex |-> << c, d >>] :
                 t \in { "sha1", "md5" }, c \in HexChars, d \in HexChars }
\* The local file a hash is verified against: absent, or one of the bodies.
FnLocalFiles == { None } \cup { Some(b) : b \in Bodies }
FnPath == LocalDest(OutDir, <<"/", "A", "/", "f">>)
\* Extensions: the members of both sets, the empty string, upper- and
\* mixed-case variants, and extensions in neither set.
FnExts ==
    META_SUFF \cup FILE_STRM
    \cup { <<>>, <<"J", "P", "G">>, <<"M", "P", "4">>, <<"M", "k", "v">>,
           <<"s", "t", "r", "m">>, <<"j", "p", "e", "g">> }

\* Inputs of _encrypt_md5: up to five pieces in a row, each eight hexadecimal
\* characters in lower or upper case, eight characters starting with a
\* non-hex one, or seven hexadecimal characters; and the digest of the test.
Md5Blocks == { <<"d", "4", "1", "d", "8", "c", "d", "9">>,
               <<"8", "f", "0", "0", "b", "2", "0", "4">>,
               <<"A", "B", "C", "D", "E", "F", "0", "1">>,
               <<"x", "4", "1", "d", "8", "c", "d", "9">>,
               <<"d", "4", "1", "d", "8", "c", "d">> }
RECURSIVE Flatten(_)
Flatten(ss) == IF ss = <<>> THEN <<>> ELSE Head(ss) \o Flatten(Tail(ss))
Md5Inputs ==
    { Flatten(bs) : bs \in SeqsUpTo(Md5Blocks, 5) }
    \cup { Flatten(<< <<"d", "4", "1", "d", "8", "c", "d", "9">>,
                      <<"8", "f", "0", "0", "b", "2", "0", "4">>,
                      <<"e", "9", "8", "0", "0", "9", "9", "8">>,
                      <<"e", "c", "f", "8", "4", "2", "7", "e">> >>) }

\* char::to_digit(16): the value of a hexadecimal digit, -1 for None.
ToDigit16(c) ==
    CASE c = "0" -> 0 [] c = "1" -> 1 [] c = "2" -> 2 [] c = "3" -> 3 [] c = "4" -> 4
      [] c = "5" -> 5 [] c = "6" -> 6 [] c = "7" -> 7 [] c = "8" -> 8 [] c = "9" -> 9
      [] c \in { "a", "A" } -> 10 [] c \in { "b", "B" } -> 11 [] c \in { "c", "C" } -> 12
      [] c \in { "d", "D" } -> 13 [] c \in { "e", "E" } -> 14 [] c \in { "f", "F" } -> 15
      [] OTHER -> -1
\* format!("{:x}", v) for v < 16
LowerHexDigit(v) ==
    << "0", "1", "2", "3", "4", "5", "6", "7", "8", "9", "a", "b", "c", "d", "e", "f" >>[v + 1]
\* a ^ b on values below 16
RECURSIVE Xor(_, _, _)
Xor(a, b, bits) ==
    IF bits = 0 THEN 0
    ELSE (IF a % 2 = b % 2 THEN 0 ELSE 1) + 2 * Xor(a \div 2, b \div 2, bits - 1)
\* char::from_u32('g' as u32 + v) for v < 16
FromG(v) ==
    << "g", "h", "i", "j", "k", "l", "m", "n", "o", "p", "q", "r", "s", "t", "u", "v" >>[v + 1]

\* crypto.rs 171-207 _encrypt_md5: the byte slices [8..16], [0..8], [24..32],
\* [16..24] (a panic on a shorter string), every digit XORed with the low
\* four bits of its index (a panic on a non-digit), the digit at index 9
\* replaced by 'g' + its value.
encrypt_md5(md5str) ==
    IF Len(md5str) < 32 THEN [panic |-> TRUE, val |-> <<>>]
    ELSE LET rearranged == SubSeq(md5str, 9, 16) \o SubSeq(md5str, 1, 8)
                             \o SubSeq(md5str, 25, 32) \o SubSeq(md5str, 17, 24)
         IN  IF \E i \in 1..32 : ToDigit16(rearranged[i]) < 0
             THEN [panic |-> TRUE, val |-> <<>>]
             ELSE LET encryptstr == [i \in 1..32 |->
                         LowerHexDigit(Xor(ToDigit16(rearranged[i]), (i - 1) % 16, 4))]
                  IN  [panic |-> FALSE,
                       val |-> [encryptstr EXCEPT ![10] = FromG(ToDigit16(encryptstr[10]))]]

\* Bodies a single attempt may be served: those of the pipelines and the
\* hashed content followed by one more chunk.
FnBodies == Bodies \cup { <<"x", "y", "z">> }

FnCalls ==
    { [fn |-> "_encrypt_md5", md5str |-> x] : x \in Md5Inputs }
    \cup { [fn |-> "attempt_download_file", checksum |-> c, file |-> f, got |-> g] :
              c \in { None } \cup { Some(h) : h \in FnHashes },
              f \in FnLocalFiles, g \in OutcomesOf(FnBodies) }
    \cup { [fn |-> "get_raw_url", resp |-> r] : r \in FnUrlResponses }
    \cup { [fn |-> "as_hash_str", h |-> h] : h \in FnHashes }
    \cup { [fn |-> "verify_file_checksum", h |-> h, file |-> f] :
              h \in FnHashes, f \in FnLocalFiles }
    \cup { [fn |-> f, ext |-> e] :
              f \in { "is_metadata_file", "is_streamable_file" }, e \in FnExts }

\* operations.rs 35-67: Ok(raw_url) or Err
get_raw_url(resp) ==
    IF get_raw_url_ok(resp)
    THEN [ok |-> TRUE, url |-> Some(Unwrap(resp.data).raw_url)]
    ELSE [ok |-> FALSE, url |-> None]

\* The file system a verify call sees.
FnFiles(file) == IF file = None THEN << >> ELSE (FnPath :> Unwrap(file))

FnInit ==
    /\ url_path = <<"/">>
    /\ CrawlGave(<<>>)
    /\ DlOff
    /\ SymIdle
    /\ RlIdle
    /\ fn_call \in FnCalls
    /\ fn_result = None

\* ------------------------------------------------------------ actions
FnGetRawUrl ==
    /\ fn_call.fn = "get_raw_url"
    /\ fn_result = None
    /\ fn_result' = Some(get_raw_url(fn_call.resp))
    /\ UNCHANGED fn_call

FnAsHashStr ==
    /\ fn_call.fn = "as_hash_str"
    /\ fn_result = None
    /\ fn_result' = Some(as_hash_str(fn_call.h))
    /\ UNCHANGED fn_call

FnVerifyFileChecksum ==
    /\ fn_call.fn = "verify_file_checksum"
    /\ fn_result = None
    /\ fn_result' = Some(verify_file_checksum(fn_call.h, FnFiles(fn_call.file), FnPath))
    /\ UNCHANGED fn_call

FnIsMetadataFile ==
    /\ fn_call.fn = "is_metadata_file"
    /\ fn_result = None
    /\ fn_result' = Some(is_metadata_file(fn_call.ext))
    /\ UNCHANGED fn_call

FnIsStreamableFile ==
    /\ fn_call.fn = "is_streamable_file"
    /\ fn_result = None
    /\ fn_result' = Some(is_streamable_file(fn_call.ext))
    /\ UNCHANGED fn_call

FnEncryptMd5 ==
    /\ fn_call.fn = "_encrypt_md5"
    /\ fn_result = None
    /\ fn_result' = Some(encrypt_md5(fn_call.md5str))
    /\ UNCHANGED fn_call

FnAttemptDownloadFile ==
    /\ fn_call.fn = "attempt_download_file"
    /\ fn_result = None
    /\ fn_result' = Some(attempt_download_file(fn_call.checksum, FnFiles(fn_call.file),
                                               FnPath, fn_call.got))
    /\ UNCHANGED fn_call

FnActions ==
    \/ FnEncryptMd5
    \/ FnAttemptDownloadFile
    \/ FnGetRawUrl
    \/ FnAsHashStr
    \/ FnVerifyFileChecksum
    \/ FnIsMetadataFile
    \/ FnIsStreamableFile

FnStep ==
    /\ FnActions
    /\ UNCHANGED << crawl_vars, crawl_hist, dl_vars, rerun_hist, sym_vars, rl_vars >>

FnSpec == FnInit /\ [][FnStep]_vars

\* ======================================================= claims: crawl
\* C1: during one crawl, whatever the server lists (the same absolute path
\* may be referenced more than once), every absolute directory path is pushed
\* on the work queue at most once and popped for listing at most once, and
\* the root path is pushed only by the seeding of the queue.
C1_EnqueuedOnce ==
    /\ NoDup(enq_log)
    /\ NoDup(deq_log)
    /\ \A i \in DOMAIN enq_log : enq_log[i] = url_path => i = 1

\* A listing named the same directory twice and that directory was popped.
C1_Witness ==
    \E i, j \in DOMAIN entries_with_paths :
        /\ i < j
        /\ entries_with_paths[i].entry.is_dir
        /\ entries_with_paths[j].entry.is_dir
        /\ entries_with_paths[i].path_str = entries_with_paths[j].path_str
        /\ entries_with_paths[i].path_str \in Range(deq_log)

C3_NullContentIsEmptyDir ==
    /\ [][ (cpc = "list" /\ list_calls' # list_calls /\ last_served' = "null") =>
             /\ cpc' = "fetch"
             /\ last_event' = "null"
             /\ outcome'[Unwrap(current_path)] = "null"
             /\ entries_with_paths' = entries_with_paths
             /\ directories_to_process' = directories_to_process
             /\ visited_paths' = visited_paths
             /\ enq_log' = enq_log ]_vars
    /\ [](cpc = "list" => Unwrap(current_path) \notin DOMAIN outcome)

\* A directory answered with null content and the crawl went on to pop
\* another directory.
C3_Witness ==
    \E i, j \in DOMAIN deq_log :
        /\ i < j
        /\ deq_log[i] \in DOMAIN outcome
        /\ outcome[deq_log[i]] = "null"

\* C4: with every list call returning and the crawl task being scheduled
\* (FairSpec), over a remote namespace of finitely many rows, the crawl
\* reaches its terminal state and returns.
C4_CrawlTerminates == <>(cpc = "returned")

\* The crawl returned after listing referenced a directory more than once and
\* after at least one retry.
C4_Witness ==
    /\ cpc = "returned"
    /\ Len(deq_log) >= 2
    /\ \E p \in DOMAIN outcome : outcome[p] = "failed"
    /\ \E i, j \in DOMAIN entries_with_paths :
          i < j /\ entries_with_paths[i].path_str = entries_with_paths[j].path_str

\* C5 as stated: at most 3 list calls are issued for one directory.
C5_AtMostThreeCalls == list_calls <= 3

\* C5 amended: for one directory the crawler issues at most MAX_RETRIES + 1 = 4
\* list calls (the first attempt and three retries), and a directory is
\* processed once.
C5_AtMostFourCalls ==
    /\ list_calls <= MAX_RETRIES + 1
    /\ NoDup(deq_log)

\* A directory was given up after its fourth list call.
C5_Witness ==
    /\ list_calls = MAX_RETRIES + 1
    /\ last_event = "failed"

\* ==================================================== claims: download
\* Tasks that hold a worker slot: started and not yet finished.
InFlight == { i \in DOMAIN tasks : tasks[i].pc \in { "url", "attempt" } }
Baidu == <<"BaiduNetdisk">>

\* C6: download_folders runs no task for a crawled item that is a directory:
\* for an item with is_dir set there is no file-info call, no GET and no write
\* of a local file.
C6_NoDownloadForDirectories ==
    pipeline = "folders" =>
        \A i \in DOMAIN tasks :
            tasks[i].item.entry.is_dir =>
                /\ tasks[i].info_calls = 0
                /\ ~tasks[i].did_get
                /\ ~tasks[i].did_write

\* C7: in every reachable state of either pipeline the number of tasks that
\* hold a worker slot is at most the configured concurrency limit.
C7_InFlightWithinLimit == Cardinality(InFlight) <= limit

\* All slots are taken while another task is still waiting for one.
C7_Witness ==
    /\ Cardinality(InFlight) = limit
    /\ \E i \in DOMAIN tasks : tasks[i].pc = "spawned"
    /\ \E i \in InFlight : tasks[i].pc = "attempt"

\* C8: no two tasks that are in flight at the same time have the same local
\* destination path.
C8_DistinctDestinations ==
    \A i, j \in InFlight : i # j => tasks[i].dest # tasks[j].dest

\* C9: in both pipelines, a task whose item comes from the provider
\* "BaiduNetdisk" is handed no expected hash for its download.
C9_DenylistedHashAbsent ==
    \A i \in DOMAIN tasks :
        (tasks[i].pc = "attempt" /\ tasks[i].item.provider = Baidu) =>
            tasks[i].checksum = None

\* C10 as stated: a task whose destination already held a file matching the
\* expected hash succeeds with no network access: no file-info call, no GET.
C10_SkipWithoutAnyNetwork ==
    \A i \in DOMAIN tasks :
        tasks[i].pre_match =>
            /\ tasks[i].pc = "done"
            /\ tasks[i].dl_ok
            /\ tasks[i].info_calls = 0
            /\ ~tasks[i].did_get

\* C10 amended: a task whose destination already holds a file matching the
\* expected hash when its download begins succeeds without any GET and
\* without writing the file; its one file-info call was issued before.
C10_SkipWithoutGet ==
    \A i \in DOMAIN tasks :
        tasks[i].pre_match =>
            /\ tasks[i].pc = "done"
            /\ tasks[i].dl_ok
            /\ tasks[i].ok
            /\ tasks[i].info_calls = 1
            /\ ~tasks[i].did_get
            /\ ~tasks[i].did_write

\* A task found its destination already correct and ended, in the folder
\* pipeline with a trusted provider.
C10_Witness ==
    /\ pipeline = "folders"
    /\ \E i \in DOMAIN tasks :
          /\ tasks[i].pre_match
          /\ tasks[i].pc = "done"
          /\ tasks[i].item.provider # Baidu

\* ================================================ claims: single download
\* C11: in a second run, a task whose download succeeded against a present
\* expected hash in the first run, and whose destination still holds the
\* content it held then, ends its download at the first attempt, in success
\* and without having issued a GET.
C11_SecondRunNoGet ==
    [][ \A i \in DOMAIN tasks :
          ( /\ run = 2
            /\ tasks[i].pc = "attempt"
            /\ tasks[i].attempt = 1
            /\ IsSome(verified[i])
            /\ tasks[i].dest \in DOMAIN fs
            /\ fs[tasks[i].dest] = Unwrap(verified[i])
            /\ tasks'[i] # tasks[i] )
          => ( /\ tasks'[i].pc = "done"
               /\ tasks'[i].dl_ok
               /\ ~tasks'[i].did_get ) ]_vars

\* In the second run a task has ended without a GET on the file that the
\* first run verified.
C11_Witness ==
    /\ run = 2
    /\ \E i \in DOMAIN tasks :
          /\ tasks[i].pc = "done"
          /\ tasks[i].dl_ok
          /\ ~tasks[i].did_get
          /\ IsSome(verified[i])
          /\ tasks[i].dest \in DOMAIN fs
          /\ fs[tasks[i].dest] = Unwrap(verified[i])

\* C12: download_file_with_retries runs attempts 1, 2, 3 at most; an attempt
\* that succeeds ends the download in success at once; a failed attempt is
\* followed by the next one unless it was the third, which ends the download
\* in failure; so the download succeeds iff its last attempt did.
\* (err' = "none" is the result of the attempt that ran in the step.)
C12_AtMostThreeAttempts ==
    [][ \A i \in DOMAIN tasks :
          ( tasks[i].pc = "attempt" /\ tasks'[i] # tasks[i] ) =>
             /\ tasks[i].attempt \in 1..3
             /\ tasks'[i].err = "none" =>
                   ( tasks'[i].pc = "done" /\ tasks'[i].dl_ok
                     /\ tasks'[i].attempt = tasks[i].attempt )
             /\ ( tasks'[i].err # "none" /\ tasks[i].attempt < 3 ) =>
                   ( tasks'[i].pc = "attempt"
                     /\ tasks'[i].attempt = tasks[i].attempt + 1 )
             /\ ( tasks'[i].err # "none" /\ tasks[i].attempt = 3 ) =>
                   ( tasks'[i].pc = "done" /\ ~tasks'[i].dl_ok
                     /\ tasks'[i].attempt = 3 ) ]_vars

\* A download ended in success at its third attempt, after a GET.
C12_Witness ==
    \E i \in DOMAIN tasks :
        /\ tasks[i].pc = "done"
        /\ tasks[i].dl_ok
        /\ tasks[i].attempt = 3
        /\ tasks[i].did_get

\* ====================================================== claims: pipelines
\* The order of a task's positions.
TaskOrder ==
    { <<"spawned", "url">>, <<"url", "attempt">>, <<"url", "done">>,
      <<"attempt", "done">>, <<"done", "joined">> }
AllJoined == dpc = "finished" /\ \A j \in DOMAIN tasks : tasks[j].pc = "joined"
SomeTaskFailed == \E i \in DOMAIN tasks : tasks[i].pc = "done" /\ ~tasks[i].ok

\* C13: the step in which a task of download_folders ends in failure changes
\* no other task; every task moves only along spawned, url, attempt, done,
\* joined, one position per step and one task per step; and once a task has
\* failed, the run still reaches the point where every task has been joined.
C13_FailureCancelsNothing ==
    /\ [][ \A i \in DOMAIN tasks :
              ( i \in DOMAIN tasks' /\ tasks[i].pc # "done"
                /\ tasks'[i].pc = "done" /\ ~tasks'[i].ok )
              => \A j \in DOMAIN tasks : j # i => tasks'[j] = tasks[j] ]_vars
    /\ [][ \A j \in DOMAIN tasks :
              ( j \in DOMAIN tasks' /\ tasks'[j].pc # tasks[j].pc )
              => << tasks[j].pc, tasks'[j].pc >> \in TaskOrder ]_vars
    /\ ( SomeTaskFailed ~> AllJoined )

\* A task has failed while another one is in flight and a third position,
\* waiting for a slot or in flight, is held by yet another.
C13_Witness ==
    /\ pipeline = "folders"
    /\ \E i, j \in DOMAIN tasks :
          /\ i # j
          /\ tasks[i].pc = "done" /\ ~tasks[i].ok /\ tasks[i].attempt = 3
          /\ tasks[j].pc \in { "spawned", "url", "attempt" }

\* C14: a task that is recorded as failed because its URL resolution failed
\* has tried the file-info call three times.
C14_UrlFailureRetried ==
    \A i \in DOMAIN tasks :
        ( tasks[i].pc = "done" /\ tasks[i].err = "url" ) => tasks[i].info_calls = 3

\* The task's step is an attempt that wrote the whole response body and so
\* reached the checksum test after the write.
WroteWhole(i) ==
    /\ tasks[i].pc = "attempt"
    /\ tasks'[i] # tasks[i]
    /\ tasks'[i].streamed
Disagrees(files, dest, expected) ==
    expected # None /\ ~ObsLocalMatches(files, dest, expected)

\* C15: an attempt that wrote a file whose hash disagrees with a present
\* expected hash fails, with the checksum-mismatch error, and the file it
\* wrote is still at the destination after the attempt.
C15_MismatchFailsAndKeepsFile ==
    fn_call.fn = "attempt_download_file" /\ fn_result # None =>
        LET r == Unwrap(fn_result)
        IN  ( r.streamed /\ Disagrees(r.fs, FnPath, fn_call.checksum) ) =>
                /\ r.err = "mismatch"
                /\ FnPath \in DOMAIN r.fs
                /\ r.fs[FnPath] = fn_call.got.body

\* C16: for an attempt with a present expected hash that wrote the whole
\* response body: the checksum test reports a mismatch exactly when the file
\* at the destination is not content whose digest, by the algorithm of the
\* hash, is the expected hash compared without regard to case.
C16_MismatchIffContentDiffers ==
    [][ \A i \in DOMAIN tasks :
          ( WroteWhole(i) /\ IsSome(tasks[i].checksum) ) =>
             ( tasks'[i].err = "mismatch"
                 <=> ~ObsLocalMatches(fs', tasks[i].dest, tasks[i].checksum) ) ]_vars

\* An attempt downloaded the content the upper-case remote hash stands for
\* and ended in success.
C16_Witness ==
    \E i \in DOMAIN tasks :
        /\ tasks[i].pc = "done"
        /\ tasks[i].streamed
        /\ tasks[i].dl_ok
        /\ tasks[i].item.entry.hash_info # None
        /\ tasks[i].item.provider # Baidu
        /\ fs[tasks[i].dest] = <<"x", "y">>

\* C17: a download attempt replaces the destination atomically: after any
\* step of an attempt the destination holds what it held before or the whole
\* new body, and an attempt that ends in a request or stream error leaves
\* the destination as it was.
C17_AtomicReplace ==
    [][ \A i \in DOMAIN tasks :
          ( tasks[i].pc = "attempt" /\ tasks'[i] # tasks[i] ) =>
             LET d == tasks[i].dest
                 same == /\ (d \in DOMAIN fs) <=> (d \in DOMAIN fs')
                         /\ d \in DOMAIN fs => fs'[d] = fs[d]
             IN  /\ same \/ ( d \in DOMAIN fs' /\ fs'[d] \in Bodies /\ tasks'[i].streamed )
                 /\ tasks'[i].err = "io" => same ]_vars

\* Tasks that have been joined.
Joined == { i \in DOMAIN tasks : tasks[i].pc = "joined" }

\* C18: in download_folders every joined task has been counted once, as a
\* success or as a failure; when the function has returned, every spawned
\* task is counted and the result is an error iff failed > 0.
C18_CountsAddUp ==
    pipeline = "folders" =>
       /\ succeeded + failed = Cardinality(Joined)
       /\ dpc = "finished" =>
             /\ succeeded + failed = Len(tasks)
             /\ dl_ret = Some("err") <=> failed > 0
             /\ dl_ret = Some("ok") <=> failed = 0

\* download_folders has returned with tasks counted on both sides.
C18_Witness ==
    /\ pipeline = "folders"
    /\ dpc = "finished"
    /\ succeeded > 0
    /\ failed > 0
    /\ dl_ret = Some("err")

\* A metadata file is missing from the output directory: its task's URL
\* resolution failed or every attempt of its download did.
MetadataFileMissing == \E i \in DOMAIN tasks : tasks[i].dest \notin DOMAIN fs

\* C19 as stated: when copy_metadata has returned and the download of some
\* metadata file has finally failed, the result is not success.
C19_MetadataFailureReported ==
    ( pipeline = "metadata" /\ dpc = "finished" /\ MetadataFileMissing )
        => dl_ret # Some("ok")

\* C19 amended: copy_metadata returns Ok(()) whatever became of its
\* downloads.
C19_MetadataAlwaysOk ==
    ( pipeline = "metadata" /\ dpc = "finished" ) => dl_ret = Some("ok")

\* copy_metadata has returned success although a metadata file could not
\* be fetched.
C19_Witness ==
    /\ pipeline = "metadata"
    /\ dpc = "finished"
    /\ MetadataFileMissing
    /\ dl_ret = Some("ok")

\* C20: the failure report of download_folders has one entry per failed
\* task, and every entry names the remote path of a crawled item.
C20_ReportNamesPaths ==
    pipeline = "folders" =>
       /\ Len(failed_files) = failed
       /\ \A k \in DOMAIN failed_files :
             \E i \in DOMAIN tasks :
                 tasks[i].item.path_str \in Range(failed_files[k].args)

\* ==================================================== claims: reconciler
\* The remote path a local file stands for: its path below the output
\* directory, with a leading separator.
RemoteName(f) == <<"/">> \o SubSeq(f, Len(OutDir) + 2, Len(f))

C22_ExpectedSetOfFilesOnly ==
    sym_pc \in { "files", "dirs" } =>
        LET res == Unwrap(crawl_ret).val
        IN  files_set = { (IF Extension(res[i].path_str) # None
                              /\ Unwrap(Extension(res[i].path_str)) \in FILE_STRM
                           THEN WithExtension(res[i].path_str, Strm)
                           ELSE res[i].path_str) :
                          i \in { j \in DOMAIN res : ~res[j].entry.is_dir } }

\* C23: the directory pass removes every directory of the subtree that is
\* empty at the moment it is visited, children before parents, so a chain of
\* nested directories that became empty is removed entirely in one pass; a
\* directory that still contains a file is never removed.
C23_EmptyDirsRemovedBottomUp ==
    /\ \A k \in DOMAIN rm_log :
          /\ ~\E f \in lfiles : IsUnder(f, rm_log[k])
          /\ \A j \in DOMAIN rm_log : IsUnder(rm_log[j], rm_log[k]) => j < k
    /\ sym_pc \in { "dirs", "done" } =>
          \A d \in seen \cap ldirs1 :
              d \in ldirs <=> \E f \in lfiles : IsUnder(f, d)
    /\ sym_pc = "done" /\ sym_ret = Some("ok") =>
          \A d \in ldirs1 : InSubtree(d, WalkRoot) /\ (~\E f \in lfiles : IsUnder(f, d))
                               => d \notin ldirs

\* The only file below a/b was deleted by the file pass, and the directory
\* pass then removed a/b, a and the walked folder itself, in that order.
C23_Witness ==
    /\ sym_pc = "done"
    /\ sym_ret = Some("ok")
    /\ lfiles1 # {}
    /\ lfiles = {}
    /\ Len(rm_log) = 3
    /\ IsUnder(rm_log[1], rm_log[2])
    /\ IsUnder(rm_log[2], rm_log[3])

\* C24: in destructive mode a failure to delete one removable file does not
\* stop reconciliation: every other removable file is still reported and
\* deleted, and the empty-directory pass still runs.
C24_RemovalFailureDoesNotStop ==
    sym_pc = "done" /\ delete /\ reported \cap locked # {} =>
        /\ \A f \in lfiles1 :
              InSubtree(f, WalkRoot) /\ RemoteName(f) \notin files_set =>
                  /\ f \in reported
                  /\ f \notin locked => f \notin lfiles
        /\ ldirs1 # {}

\* C25: for a full run in which the crawl and every download and placeholder
\* step succeed, starting from an empty output directory, reconciliation
\* reports and deletes nothing, for the default root "/" as for a root "/A".
C25_FreshRunRemovesNothing ==
    sym_pc \in { "files", "dirs", "done" } /\ steps_ok /\ lfiles0 = {} =>
        /\ reported = {}
        /\ wrote \subseteq lfiles

\* ================================================== claims: rate limiter
\* C26: every outbound call (directory list, file-info get, streaming GET),
\* from the crawler and from every download worker, is sent only after the
\* caller has acquired a token from the single shared limiter; when the wait
\* times out the call fails with a rate-limiter timeout error and no request
\* is sent.
C26_SentOnlyWithToken ==
    /\ \A k \in DOMAIN rl_sent : rl_calls[rl_sent[k].caller].acquired
    /\ \A c \in DOMAIN rl_calls :
          /\ rl_calls[c].pc = "sent" => rl_calls[c].acquired
          /\ rl_calls[c].timed_out =>
                /\ rl_calls[c].pc = "done"
                /\ rl_calls[c].result = "Rate limiter timeout"
                /\ \A k \in DOMAIN rl_sent : rl_sent[k].caller # c

\* A worker's streaming GET was sent after it got a token, the crawler's list
\* call timed out waiting, and a file-info call was sent as well.
C26_Witness ==
    /\ \E k \in DOMAIN rl_sent : rl_sent[k].kind = "download"
    /\ \E k \in DOMAIN rl_sent : rl_sent[k].kind = "get"
    /\ \E c \in DOMAIN rl_calls : rl_calls[c].kind = "list" /\ rl_calls[c].timed_out

\* ================================================ claims: pure functions
\* C27: the file-info call (get_raw_url) succeeds only when the response
\* envelope has code 200; for any other application code it returns an error
\* and yields no download URL, whatever the data field contains.
C27_UrlOnlyOnCode200 ==
    fn_call.fn = "get_raw_url" /\ fn_result # None /\ Unwrap(fn_result).ok =>
        fn_call.resp.kind = "resp" /\ fn_call.resp.code = 200

\* C28: verify_file_checksum returns false, not an error, when no file exists
\* at the local path, so an attempt that finds no file at its destination
\* always goes on to the download (the GET is issued) instead of ending as a
\* skip or as a failed attempt without a request.
C28_MissingFileIsDownloaded ==
    [][\A i \in DOMAIN tasks :
          /\ tasks[i].pc = "attempt"
          /\ tasks[i].dest \notin DOMAIN fs
          /\ i \in DOMAIN tasks'
          /\ tasks'[i] # tasks[i]
          => /\ tasks'[i].did_get
             /\ tasks'[i].dl_ok => tasks'[i].did_write]_vars

\* A task holding a checksum found no file at its destination in its first
\* attempt, issued the GET, which failed, and is about to try again.
C28_Witness ==
    \E i \in DOMAIN tasks :
        /\ tasks[i].pc = "attempt"
        /\ tasks[i].attempt = 2
        /\ IsSome(tasks[i].checksum)
        /\ tasks[i].did_get
        /\ tasks[i].dest \notin DOMAIN fs

\* The upper-case form of a hexadecimal digit.
UpperHex(c) ==
    CASE c = "a" -> "A" [] c = "b" -> "B" [] c = "c" -> "C"
      [] c = "d" -> "D" [] c = "e" -> "E" [] c = "f" -> "F"
      [] OTHER -> c
UpperCased(h) == [h EXCEPT !.hex = [k \in DOMAIN h.hex |-> UpperHex(h.hex[k])]]

\* C29: the hash comparison is insensitive to the letter case of the remote
\* value: as_hash_str returns the remote hash lowercased for the SHA-1 and the
\* MD5 variant alike, and verification compares it to the lower-case hex
\* digest computed with the algorithm the variant names.
C29_HashCaseInsensitive ==
    /\ fn_call.fn = "as_hash_str" /\ fn_result # None =>
          LET r == Unwrap(fn_result)
              x == fn_call.h.hex
          IN  /\ Len(r) = Len(x)
              /\ \A k \in DOMAIN r :
                    /\ r[k] \notin { "A", "B", "C", "D", "E", "F" }
                    /\ UpperHex(r[k]) = UpperHex(x[k])
    /\ fn_call.fn = "verify_file_checksum" /\ fn_result # None =>
          LET h      == fn_call.h
              digest == IF h.tag = "sha1" THEN Sha1Hex(Unwrap(fn_call.file))
                                          ELSE Md5Hex(Unwrap(fn_call.file))
          IN  /\ fn_call.file # None =>
                    (Unwrap(fn_result) <=>
                        /\ Len(digest) = Len(h.hex)
                        /\ \A k \in DOMAIN digest : UpperHex(digest[k]) = UpperHex(h.hex[k]))
              /\ Unwrap(fn_result) =
                    verify_file_checksum(UpperCased(h), FnFiles(fn_call.file), FnPath)

\* An MD5 hash served in upper case was verified against a file whose MD5
\* digest it is, and the verification succeeded.
C29_Witness ==
    /\ fn_call.fn = "verify_file_checksum"
    /\ fn_call.h.tag = "md5"
    /\ fn_call.h.hex = <<"1", "A">>
    /\ fn_result = Some(TRUE)

\* An extension with an upper-case letter among those tried.
HasUpper(ext) == \E k \in DOMAIN ext : ext[k] \in { "J", "P", "G", "M" }

\* C30: is_metadata_file and is_streamable_file are exact, case-sensitive
\* membership tests on fixed extension sets (the empty string and upper-case
\* variants such as "JPG" or "MP4" match neither), and the two sets are
\* disjoint, so no file is both downloaded verbatim and turned into a
\* placeholder.
C30_ExactDisjointExtensionTests ==
    fn_call.fn \in { "is_metadata_file", "is_streamable_file" } /\ fn_result # None =>
        LET e == fn_call.ext
            r == Unwrap(fn_result)
        IN  /\ r <=> e \in (IF fn_call.fn = "is_metadata_file" THEN META_SUFF ELSE FILE_STRM)
            /\ e = <<>> \/ HasUpper(e) => ~r
            /\ r => ~(is_metadata_file(e) /\ is_streamable_file(e))

\* "MP4" was tested by is_streamable_file and did not match, and "mp4" is in
\* the streamable set while it is not a metadata extension.
C30_Witness ==
    /\ fn_call = [fn |-> "is_streamable_file", ext |-> <<"M", "P", "4">>]
    /\ fn_result = Some(FALSE)
    /\ is_streamable_file(<<"m", "p", "4">>)
    /\ ~is_metadata_file(<<"m", "p", "4">>)

\* The characters char::to_digit(16) accepts.
HexDigits == { "0", "1", "2", "3", "4", "5", "6", "7", "8", "9",
               "a", "b", "c", "d", "e", "f", "A", "B", "C", "D", "E", "F" }

\* C31: for every input of 32 hexadecimal characters _encrypt_md5 returns a
\* string of the same length that differs from the input; an input with a
\* non-hex character or with fewer than 32 characters makes it panic instead
\* of returning a value.
C31_EncryptMd5Contract ==
    fn_call.fn = "_encrypt_md5" /\ fn_result # None =>
        LET x == fn_call.md5str
            r == Unwrap(fn_result)
        IN  /\ Len(x) = 32 /\ (\A k \in DOMAIN x : x[k] \in HexDigits) =>
                  /\ ~r.panic
                  /\ Len(r.val) = Len(x)
                  /\ r.val # x
            /\ Len(x) < 32 \/ (\E k \in DOMAIN x : x[k] \notin HexDigits) => r.panic

\* C32: the bounded wait for a rate-limiter token is a separate timeout that
\* is strictly shorter than the request timeout applied to the network call
\* that follows it.
C32_WaitShorterThanRequest ==
    \A c \in DOMAIN rl_calls :
        rl_calls[c].req_secs # None =>
            Unwrap(rl_calls[c].wait_secs) < Unwrap(rl_calls[c].req_secs)

\* C32, as the code has it: the wait for a token is bounded by a timeout of
\* its own, which has the same length as the request timeout of the call that
\* follows it (both are the configured timeout).
C32_WaitEqualsRequest ==
    \A c \in DOMAIN rl_calls :
        /\ rl_calls[c].pc # "idle" => rl_calls[c].wait_secs = Some(rl_timeout)
        /\ rl_calls[c].req_secs # None =>
              /\ rl_calls[c].acquired
              /\ rl_calls[c].wait_secs = rl_calls[c].req_secs

\* With the default timeout of 10 seconds a streaming GET was sent: its wait
\* and its request were both bounded by 10 seconds.
C32_Witness ==
    \E c \in DOMAIN rl_calls :
        /\ rl_calls[c].kind = "download"
        /\ rl_calls[c].pc = "sent"
        /\ rl_calls[c].wait_secs = Some(10)
        /\ rl_calls[c].req_secs = Some(10)

\* ========================================================= claims: retry
\* C33: between download attempts the wait is exponential and capped: after
\* failed attempt k (k < 3) the task sleeps min(500 * 2^(k-1), 10000) ms before
\* attempt k+1, the delays never decrease and never exceed 10000 ms, and no
\* wait follows the final failed attempt.
C33_BackoffExponentialCapped ==
    \A i \in DOMAIN tasks :
        LET w == tasks[i].waits
        IN  /\ Len(w) = IF tasks[i].attempt = 0 THEN 0 ELSE tasks[i].attempt - 1
            /\ Len(w) < 3
            /\ \A k \in DOMAIN w :
                  /\ w[k] = IF 500 * (2 ^ (k - 1)) < 10000 THEN 500 * (2 ^ (k - 1)) ELSE 10000
                  /\ w[k] <= 10000
                  /\ k > 1 => w[k - 1] <= w[k]

\* A download failed three times: it slept 500 ms and 1000 ms between the
\* attempts and nothing after the third.
C33_Witness ==
    \E i \in DOMAIN tasks :
        /\ tasks[i].pc = "done"
        /\ ~tasks[i].dl_ok
        /\ tasks[i].attempt = 3
        /\ tasks[i].waits = << 500, 1000 >>

\* ================================================= claims: crawl order
\* The depth of an absolute path: the number of separators in it.
Depth(path) == Cardinality({ k \in DOMAIN path : path[k] = "/" })
\* The directory a crawled path was listed in.
ParentOf(path) == SubSeq(path, 1, LastIndexOf(path, "/", Len(path)) - 1)
\* When a directory was popped (0 if it never was).
ListedAt(dir) ==
    IF \E k \in DOMAIN deq_log : deq_log[k] = dir
    THEN CHOOSE k \in DOMAIN deq_log : deq_log[k] = dir
    ELSE 0

\* C34: the crawl is breadth-first: directories are listed in the FIFO order
\* in which they were discovered, so every directory at depth d is listed
\* before any directory at depth d+1, and the result list holds the children
\* of earlier-listed directories before those of later-listed ones.
C34_BreadthFirst ==
    /\ IsPrefix(deq_log, enq_log)
    /\ \A i, j \in DOMAIN deq_log : i < j => Depth(deq_log[i]) <= Depth(deq_log[j])
    /\ \A i, j \in DOMAIN entries_with_paths :
          i < j =>
              /\ ListedAt(ParentOf(entries_with_paths[i].path_str)) > 0
              /\ ListedAt(ParentOf(entries_with_paths[i].path_str))
                    <= ListedAt(ParentOf(entries_with_paths[j].path_str))

\* The root listed two directories; both were then listed, in the order of
\* their rows, after the root.
C34_Witness ==
    /\ cpc = "returned"
    /\ Len(deq_log) = 3
    /\ Depth(deq_log[2]) = Depth(deq_log[3])
    /\ Depth(deq_log[1]) < Depth(deq_log[2])
    /\ Len(entries_with_paths) = 2
    /\ entries_with_paths[1].path_str = deq_log[2]
    /\ entries_with_paths[2].path_str = deq_log[3]

\* The dequeued directories whose process_folder_contents has not returned.
BeingListed == { k \in DOMAIN deq_log : deq_log[k] \notin DOMAIN outcome }

\* C35: during a crawl at most one directory-listing call is in flight at
\* any time: the next path is dequeued only after the previous directory's
\* listing (with all its retries) has finished.
C35_OneListingInFlight ==
    /\ Cardinality(BeingListed) <= 1
    /\ BeingListed # {} =>
          /\ BeingListed = { Len(deq_log) }
          /\ cpc = "list"
          /\ current_path = Some(deq_log[Len(deq_log)])
    /\ cpc = "list" => BeingListed # {}

\* A second directory is being listed, after a failed attempt on it, and the
\* first one finished after retries.
C35_Witness ==
    /\ Len(deq_log) = 2
    /\ cpc = "list"
    /\ retry_count > 0
    /\ deq_log[1] \in DOMAIN outcome
    /\ deq_log[2] \notin DOMAIN outcome

\* C40: a failed listing attempt leaves the result list, the work queue and
\* the visited set unchanged, and the children of a directory are appended
\* only by its one successful attempt, so retries never produce duplicate
\* crawled items for the same listing.
C40_FailedAttemptLeavesNoTrace ==
    [][ /\ (cpc = "list" /\ last_event' \in { "retry", "failed" }) =>
              UNCHANGED << entries_with_paths, directories_to_process, visited_paths >>
        /\ entries_with_paths' # entries_with_paths =>
              /\ cpc = "list"
              /\ last_event' = "listed"
              /\ current_path' = None
              /\ IsPrefix(entries_with_paths, entries_with_paths')
              /\ \A k \in DOMAIN entries_with_paths :
                    ParentOf(entries_with_paths[k].path_str) # Unwrap(current_path)
              /\ \A k \in DOMAIN entries_with_paths' :
                    k > Len(entries_with_paths) =>
                       ParentOf(entries_with_paths'[k].path_str) = Unwrap(current_path)
      ]_vars

\* A directory was listed on its second attempt, after a failed first one,
\* and its rows are at the end of the result.
C40_Witness ==
    /\ last_event = "listed"
    /\ list_calls = 2
    /\ entries_with_paths # <<>>
    /\ ParentOf(entries_with_paths[Len(entries_with_paths)].path_str)
          = deq_log[Len(deq_log)]

\* C37: when the destructive-delete flag is off, reconciliation leaves the
\* local filesystem unchanged: it only reports removable files and removes
\* neither a file nor a directory.
C37_DryRunLeavesFilesystem ==
    ~delete /\ (sym_pc \in { "files", "dirs" } \/ sym_ret = Some("ok")) =>
        /\ lfiles = lfiles1
        /\ rm_log = <<>>
        /\ sym_pc \in { "dirs", "done" } => ldirs = ldirs1

\* The local paths that stand for a file the server still holds: the files of
\* the crawl result and those below a directory the crawl lost.
StillOnServer ==
    { ExpectedPath(ServerPath(entries_with_paths[i].path_str)) :
        i \in { j \in DOMAIN entries_with_paths : ~entries_with_paths[j].entry.is_dir } }
    \cup { ExpectedPath(r) : r \in remote_lost }

C38_CorrectBodyNeverRejected ==
    [][ \A i \in DOMAIN tasks :
           ( /\ i \in DOMAIN tasks'
             /\ tasks[i].pc = "attempt"
             /\ tasks'[i] # tasks[i]
             /\ tasks'[i].err = "mismatch" )
           => ~ObsLocalMatches(fs', tasks[i].dest, tasks[i].checksum)
      ]_vars

\* ================================================== claims: worker slots
\* C39: with a concurrency limit of at least 1 and every network call
\* eventually returning, every spawned download task eventually acquires a
\* worker slot and finishes, its slot is released on every exit path (success,
\* URL-resolution failure, exhausted retries), and download_folders terminates
\* with all slots free.
C39_EveryTaskRunsAndFreesItsSlot ==
    /\ [][ \A i \in DOMAIN tasks :
              ( i \in DOMAIN tasks' /\ tasks'[i].pc # tasks[i].pc ) =>
                 /\ tasks'[i].pc = "url" =>
                       /\ tasks[i].pc = "spawned"
                       /\ slots_free > 0
                       /\ slots_free' = slots_free - 1
                 /\ tasks'[i].pc = "done" =>
                       /\ tasks[i].pc \in { "url", "attempt" }
                       /\ tasks'[i].err \in { "none", "url", "io", "mismatch" }
                       /\ slots_free' = slots_free + 1
                 /\ tasks'[i].pc = "joined" => tasks[i].pc = "done" ]_vars
    /\ <>( /\ dpc = "finished"
           /\ slots_free = limit
           /\ \A j \in DOMAIN tasks : tasks[j].pc = "joined" )

\* Two tasks share one slot: the first has ended in failure after its third
\* attempt and given the slot back, the second holds it now.
C39_Witness ==
    /\ pipeline = "folders"
    /\ limit = 1
    /\ slots_free = 0
    /\ \E i, j \in DOMAIN tasks :
          /\ tasks[i].pc = "done" /\ ~tasks[i].ok /\ tasks[i].attempt = 3
          /\ tasks[j].pc = "attempt"

====
